---- MODULE Spec2Model ----
(***************************************************************************)
(* Memory-management core of the kfs kernel: the bitmap frame allocator    *)
(* (memory/physical_memory_managment.rs), the kernel heap (memory/         *)
(* kmalloc.rs) and the auxiliary heap (memory/vmalloc.rs).                 *)
(*                                                                         *)
(* A 32-bit address is held either as a byte offset from the start of its  *)
(* arena, or as a pair (page number, offset in page), so that higher-half  *)
(* addresses stay inside the range of the model checker's integers.        *)
(***************************************************************************)
EXTENDS Integers, Sequences, FiniteSets, TLC

VARIABLES
    unit,              \* which component the run drives: "pmm", "kmalloc",
                       \* "kmalloc_test", "vmalloc", "vbrk", "paging", "entry",
                       \* "fault", "lock", "init", "boot", "keyboard"
    halted,            \* the kernel panicked (panic handler never returns)
    overflow_checks,   \* build profile: arithmetic overflow panics (TRUE) or wraps
    \* PhysicalMemoryManager (the instance at PMM_ADDRESS)
    memory_map,        \* sequence of 32-bit words, each the set of its set bit offsets
    used_blocks,       \* u32; a negative v stands for 2^32 + v (wrapped)
    max_blocks,
    usable_regions,    \* sequence of MAX_REGIONS records [start_address, size]
    memory_size,       \* bytes of memory, as process_memory_map computed it
    mmu,               \* init_pages' position (pc, table index i) and the CPU's
                       \* cr3 and cr0.PG
    pmm_last,          \* the last PMM call and its result
    pmm_run,           \* results of the allocate_frame calls made on an all-free
                       \* bitmap since init, while nothing else was called
    \* kmalloc
    kmem,              \* arena bytes that hold a KmallocHeader: offset -> [used, size]
    KERNEL_HEAP_BREAK, \* offset from KERNEL_HEAP_START
    k_last,            \* the last kmalloc-arena call and its result
    k_stray,           \* a kfree of a block that was not in use has returned
    k_script,          \* results of the calls of the allocation scenario made so far
    \* vmalloc
    vmem,              \* arena bytes that hold a VmallocHeader: offset -> header
    VMALLOC_BREAK,     \* offset from VMALLOC_START
    v_last,            \* the last vmalloc-arena call and its result
    v_uninit,          \* vmalloc has read a header location holding non-zero bytes
    kb,                \* the keyboard statics (SCANCODE_BUFFER, BUFFER_HEAD,
                       \* BUFFER_TAIL, KEYBOARD_INTERRUPT_RECEIVED), the main
                       \* loop's position pc, and what was stored and read so far
    v_mapped,          \* pages of the vmalloc arena (numbered from VMALLOC_START)
                       \* the paging layer holds mapped
                       \* that the allocator did not write
    \* paging
    pg_directory,      \* directory index -> entry [page, low]: bits 12..31 of the
                       \* value as a page number, and the flags set in bits 0..11
    pg_tables,         \* directory index -> table index -> entry [page, low]
    pg_fresh,          \* nothing was mapped since init_pages
    pg_last,           \* the last paging call and its result
    \* execution contexts
    cpu                \* [holder, stack]: stack of the contexts on the one core,
                       \* the foreground first, then the page-fault handlers that
                       \* interrupted what lies below, each [pc, va]; holder is
                       \* the position of the context holding PMM's lock, 0 when
                       \* it is free

vars == <<unit, halted, overflow_checks, memory_map, used_blocks, max_blocks,
          usable_regions, pmm_last, kmem, KERNEL_HEAP_BREAK, k_last,
          vmem, VMALLOC_BREAK, v_last, v_uninit, pmm_run, k_stray, k_script,
          pg_directory, pg_tables, pg_fresh, pg_last, cpu, memory_size,
          mmu, v_mapped, kb>>

pmm_vars == <<memory_map, used_blocks, max_blocks, usable_regions, memory_size, pmm_last,
             pmm_run>>
k_vars == <<kmem, KERNEL_HEAP_BREAK, k_last, k_stray, k_script>>
v_vars == <<vmem, VMALLOC_BREAK, v_last, v_uninit, v_mapped>>
pg_vars == <<pg_directory, pg_tables, pg_fresh, pg_last>>

(***************************************************************************)
(* Bounds of the model.                                                    *)
(***************************************************************************)
MaxWords == 2
MaxFree == 3
MaxWrap == 2
MaxKBlocks == 4
MaxVBlocks == 4
MaxVDrift == 64
\* key presses of a run
MaxKeys == 129

(***************************************************************************)
(* Physical memory manager.                                                *)
(***************************************************************************)
MAX_REGIONS == 10
PMMNGR_BLOCK_SIZE == 4096
PMMNGR_BLOCKS_PER_INDEX == 32

\* A u32 address as (address / 4096, address % 4096).
Addr(a) == [page |-> a \div PMMNGR_BLOCK_SIZE, off |-> a % PMMNGR_BLOCK_SIZE]

AddrGE(x, a) ==
    \/ x.page > a \div PMMNGR_BLOCK_SIZE
    \/ x.page = a \div PMMNGR_BLOCK_SIZE /\ x.off >= a % PMMNGR_BLOCK_SIZE

AddrLE(x, a) ==
    \/ x.page < a \div PMMNGR_BLOCK_SIZE
    \/ x.page = a \div PMMNGR_BLOCK_SIZE /\ x.off <= a % PMMNGR_BLOCK_SIZE

\* The manager's mutable fields, threaded through the calls below.
PmmState == [memory_map |-> memory_map, used_blocks |-> used_blocks, panic |-> FALSE]

\* u32 comparison used_blocks >= max_blocks (a wrapped counter is huge).
U32GE(a, b) == IF a < 0 THEN TRUE ELSE a >= b

mmap_test(map, bit) == (bit % 32) \in map[(bit \div 32) + 1]

PopCount(map) == Cardinality({b \in 0..(Len(map) * 32 - 1) : mmap_test(map, b)})

\* A mmap_set that counts the frame and leaves its bit alone.
mmap_setCountOnly(s, bit) ==
    IF s.panic THEN s
    ELSE IF bit \div 32 >= Len(s.memory_map) THEN [s EXCEPT !.panic = TRUE]
    ELSE [s EXCEPT !.used_blocks = @ + 1]

\* pmm.memory_map[index] |= 1 << offset; pmm.used_blocks += 1
\* (indexing past the slice panics)
mmap_set(s, bit) ==
    IF s.panic THEN s
    ELSE IF bit \div 32 >= Len(s.memory_map) THEN [s EXCEPT !.panic = TRUE]
    ELSE [s EXCEPT !.memory_map[(bit \div 32) + 1] = @ \cup {bit % 32},
                   !.used_blocks = @ + 1]

\* pmm.memory_map[index] &= !(1 << offset); pmm.used_blocks -= 1
mmap_unset(s, bit) ==
    IF s.panic THEN s
    ELSE IF bit \div 32 >= Len(s.memory_map) THEN [s EXCEPT !.panic = TRUE]
    ELSE IF s.used_blocks = 0 /\ overflow_checks
         THEN [s EXCEPT !.memory_map[(bit \div 32) + 1] = @ \ {bit % 32},
                        !.panic = TRUE]
    ELSE [s EXCEPT !.memory_map[(bit \div 32) + 1] = @ \ {bit % 32},
                   !.used_blocks = @ - 1]

is_address_usable(regions, x) ==
    \E i \in 1..Len(regions) :
        /\ AddrGE(x, regions[i].start_address)
        /\ AddrLE(x, regions[i].start_address + regions[i].size)

\* The scan of allocate_frame: the first clear bit of the first word that is
\* not all-ones among the first max_blocks / 32 words; 0 when there is none.
ScanFirstFree(map, max) ==
    LET words == {i \in 0..((max \div 32) - 1) : map[i + 1] # 0..31}
    IN  IF words = {} THEN 0
        ELSE LET i == CHOOSE w \in words : \A v \in words : w <= v
                 j == CHOOSE b \in (0..31) \ map[i + 1] :
                          \A c \in (0..31) \ map[i + 1] : b <= c
             IN  i * 32 + j

\* allocate_frame: [s: the manager after the call, ok, address]
allocate_frame(s, max) ==
    IF U32GE(s.used_blocks, max) THEN [s |-> s, ok |-> FALSE, address |-> 0]
    ELSE LET frame == ScanFirstFree(s.memory_map, max)
         IN  IF frame # 0
             THEN [s |-> mmap_set(s, frame), ok |-> TRUE,
                   address |-> frame * PMMNGR_BLOCK_SIZE]
             ELSE [s |-> s, ok |-> FALSE, address |-> 0]

\* deallocate_frame(address), address given as (page, offset)
deallocate_frame(s, regions, x) ==
    IF is_address_usable(regions, x) THEN mmap_unset(s, x.page) ELSE s

\* Frame numbers at which the usable region recorded in slot 0 may start; the
\* region leaves as many frames unusable at the top of memory.  A region that
\* starts above 0 is tried on the one-word bitmap.
PmmRegionStarts(max) == IF max = PMMNGR_BLOCKS_PER_INDEX THEN {0, 2} ELSE {0}

\* A manager whose frames 0 .. k-1 and whose frames outside the usable
\* region are in use.
PmmWords(max, k, lo) ==
    [i \in 1..(max \div PMMNGR_BLOCKS_PER_INDEX) |->
        {b \in 0..31 : \/ (i - 1) * 32 + b < k
                       \/ (i - 1) * 32 + b < lo
                       \/ (i - 1) * 32 + b >= max - lo}]

PmmRegions(max, lo) ==
    [i \in 1..MAX_REGIONS |->
        IF i = 1 /\ max >= 2 * lo
        THEN [start_address |-> lo * PMMNGR_BLOCK_SIZE,
              size |-> (max - 2 * lo) * PMMNGR_BLOCK_SIZE]
        ELSE [start_address |-> 0, size |-> 0]]

PmmSizes == {4} \cup {32 * w : w \in 1..MaxWords} \cup {36}

PmmReserved(max) ==
    LET tracked == (max \div 32) * 32
    IN  {0} \cup {k \in 0..tracked : tracked - k <= MaxFree}

\* Addresses handed to deallocate_frame by the run.
PmmFreeAddrs(max) ==
    LET tracked == (max \div 32) * 32
    IN  {f * PMMNGR_BLOCK_SIZE : f \in {0, 1, tracked - 2, tracked - 1, max} \cap 0..max}
        \cup {PMMNGR_BLOCK_SIZE + 1}

NoCall == [op |-> "none"]

InitPmm(max, k, lo) ==
    /\ max_blocks = max
    /\ memory_map = PmmWords(max, k, lo)
    /\ used_blocks = PopCount(PmmWords(max, k, lo))
    /\ usable_regions = PmmRegions(max, lo)
    /\ memory_size = max * PMMNGR_BLOCK_SIZE
    /\ pmm_last = NoCall
    /\ pmm_run = [fresh |-> k = 0 /\ lo = 0, calls |-> <<>>]

AdoptPmm(s) ==
    /\ memory_map' = s.memory_map
    /\ used_blocks' = s.used_blocks
    /\ halted' = s.panic

AllocateFrame ==
    /\ unit = "pmm" /\ ~halted
    /\ LET r == allocate_frame(PmmState, max_blocks)
       IN  /\ AdoptPmm(r.s)
           /\ pmm_last' = [op |-> "allocate_frame", ok |-> r.ok, address |-> r.address,
                           was_set |-> r.ok /\ mmap_test(memory_map, r.address \div 4096),
                           used_before |-> used_blocks]
           /\ pmm_run' = IF pmm_run.fresh /\ Len(pmm_run.calls) <= max_blocks
                          THEN [pmm_run EXCEPT !.calls =
                                   Append(@, [ok |-> r.ok, address |-> r.address])]
                          ELSE pmm_run
    /\ UNCHANGED <<unit, kb, mmu, cpu, overflow_checks, max_blocks, usable_regions, memory_size, k_vars, v_vars,
                 pg_vars>>

DeallocateFrame ==
    /\ unit = "pmm" /\ ~halted
    /\ \E a \in PmmFreeAddrs(max_blocks) :
          LET bit == a \div PMMNGR_BLOCK_SIZE
              r == deallocate_frame(PmmState, usable_regions, Addr(a))
          IN  /\ r.used_blocks >= 0 - MaxWrap
              /\ AdoptPmm(r)
              /\ pmm_last' = [op |-> "deallocate_frame", address |-> a,
                              was_set |-> bit \div 32 < Len(memory_map)
                                          /\ mmap_test(memory_map, bit),
                              used_before |-> used_blocks]
    /\ pmm_run' = [fresh |-> FALSE, calls |-> <<>>]
    /\ UNCHANGED <<unit, kb, mmu, cpu, overflow_checks, max_blocks, usable_regions, memory_size, k_vars, v_vars,
                 pg_vars>>

PmmNext == AllocateFrame \/ DeallocateFrame

(***************************************************************************)
(* Kernel heap (kmalloc.rs).  Offsets are bytes from KERNEL_HEAP_START,    *)
(* which init() places one page past the 1024 page tables, themselves two  *)
(* pages past the page-aligned end of the frame bitmap at _kernel_end.     *)
(***************************************************************************)
PAGE_SIZE == 4096
KERNEL_HEAP_SIZE == 1048576
MIN_ALLOCATION_SIZE == 32
KMALLOC_HEADER_SIZE == 4
KMALLOC_MAX_ALLOCATION_SIZE == PAGE_SIZE * 1024 - KMALLOC_HEADER_SIZE
HIGH_KERNEL_OFFSET_PAGE == 786432
KernelImagePages == 512

\* Page number of KERNEL_HEAP_START: bitmap page(s), the manager's page,
\* the directory page, 1024 table pages and one more page.
KERNEL_HEAP_START_PAGE ==
    HIGH_KERNEL_OFFSET_PAGE + KernelImagePages + 1 + 1 + 1 + 1024 + 1

Put(f, k, v) == [x \in DOMAIN f \cup {k} |-> IF x = k THEN v ELSE f[x]]

\* kernel_heap_init: one free header spanning the arena, break at the start.
kernel_heap_init == [mem |-> Put(<<>>, 0, [used |-> FALSE, size |-> KERNEL_HEAP_SIZE]),
                     brk |-> 0]

\* size += header; round up to a multiple of MIN_ALLOCATION_SIZE
KRoundDown(n) ==
    LET size == n + KMALLOC_HEADER_SIZE
    IN  size - (size % MIN_ALLOCATION_SIZE)

KRound(n) ==
    LET size == n + KMALLOC_HEADER_SIZE
        remaining == size % MIN_ALLOCATION_SIZE
    IN  IF remaining # 0 THEN size + (MIN_ALLOCATION_SIZE - remaining) ELSE size

\* A walk that keeps the last fitting header instead of the first.
RECURSIVE KFindLast(_, _, _)
KFindLast(mem, current, size) ==
    IF current >= KERNEL_HEAP_SIZE THEN -1
    ELSE LET later == KFindLast(mem, current + mem[current].size, size)
         IN  IF later >= 0 THEN later
             ELSE IF ~mem[current].used /\ mem[current].size >= size THEN current
             ELSE -1

\* The first-fit walk of kmalloc: the offset of the selected header, or -1.
RECURSIVE KFind(_, _, _)
KFind(mem, current, size) ==
    IF current >= KERNEL_HEAP_SIZE THEN -1
    ELSE IF ~mem[current].used /\ mem[current].size >= size THEN current
    ELSE KFind(mem, current + mem[current].size, size)

\* The page loop of kbrk: whole pages are added until the break reaches
\* new_break (the loop's result, computed without iterating).
KbrkLoop(brk, new_break) ==
    IF brk < new_break
    THEN brk + PAGE_SIZE * ((new_break - brk + PAGE_SIZE - 1) \div PAGE_SIZE)
    ELSE brk

\* kbrk(increment): [panic, brk]
kbrk(brk, increment) ==
    LET new_break == brk + increment
    IN  IF new_break > KERNEL_HEAP_SIZE THEN [panic |-> TRUE, brk |-> brk]
        ELSE [panic |-> FALSE, brk |-> KbrkLoop(brk, new_break)]

\* Size of the header written after the carved block.
KSplitRestWhole(old_size, size) == old_size

KSplitRest(old_size, size) == old_size - size

\* kmalloc(n): [ret, ptr, mem, brk]
kmalloc(mem, brk, n) ==
    IF n = 0 THEN [ret |-> "err", ptr |-> -1, mem |-> mem, brk |-> brk]
    ELSE LET size == KRound(n) IN
    IF size > KMALLOC_MAX_ALLOCATION_SIZE
    THEN [ret |-> "err", ptr |-> -1, mem |-> mem, brk |-> brk]
    ELSE LET current == KFind(mem, 0, size) IN
    IF current < 0 THEN [ret |-> "err", ptr |-> -1, mem |-> mem, brk |-> brk]
    ELSE LET grown == IF current + size > brk THEN kbrk(brk, size)
                      ELSE [panic |-> FALSE, brk |-> brk]
             old_size == mem[current].size
             carved == Put(mem, current, [used |-> TRUE, size |-> size])
         IN  IF grown.panic
             THEN [ret |-> "panic", ptr |-> -1, mem |-> mem, brk |-> brk]
             ELSE [ret |-> "ok", ptr |-> current + KMALLOC_HEADER_SIZE,
                   mem |-> IF old_size # size
                           THEN Put(carved, current + size,
                                    [used |-> FALSE, size |-> KSplitRest(old_size, size)])
                           ELSE carved,
                   brk |-> grown.brk]

\* kdefrag: merge every free header with its free successor.
kdefragNone(mem, header) == mem

RECURSIVE kdefragLoop(_, _)
kdefragLoop(mem, header) ==
    IF header >= KERNEL_HEAP_SIZE THEN mem
    ELSE LET next_header == header + mem[header].size
         IN  IF next_header >= KERNEL_HEAP_SIZE THEN mem
             ELSE IF ~mem[header].used /\ ~mem[next_header].used
                  THEN kdefragLoop([mem EXCEPT ![header].size = @ + mem[next_header].size],
                                   header)
                  ELSE kdefragLoop(mem, next_header)

kdefrag(mem, header) == kdefragLoop(mem, header)

RECURSIVE get_last_used_address(_, _, _)
get_last_used_address(mem, current, last_used) ==
    IF current >= KERNEL_HEAP_SIZE THEN last_used
    ELSE get_last_used_address(mem, current + mem[current].size,
                               IF mem[current].used THEN current ELSE last_used)

\* The loop of free_unused_frames: PMM.lock().deallocate_frame(current) for
\* each page from current up to the break, in ascending order.  deallocate_frame
\* leaves the manager alone for an address that is not usable, so only the
\* usable pages are folded.
KHeapAddr(offset) == [page |-> KERNEL_HEAP_START_PAGE + offset \div PAGE_SIZE, off |-> 0]

RECURSIVE KReleaseAll(_, _, _)
KReleaseAll(s, regions, pages) ==
    IF pages = {} THEN s
    ELSE LET p == CHOOSE x \in pages : \A y \in pages : x <= y
         IN  KReleaseAll(deallocate_frame(s, regions, KHeapAddr(p)), regions, pages \ {p})

KReleasePages(s, regions, current, brk) ==
    KReleaseAll(s, regions,
        {p \in {current + k * PAGE_SIZE : k \in 0..((brk - current) \div PAGE_SIZE)} :
            p < brk /\ is_address_usable(regions, KHeapAddr(p))})

\* free_unused_frames: [pmm, brk]
free_unused_frames(mem, brk, s, regions) ==
    LET last_used == get_last_used_address(mem, 0, 0)
        next_page == ((last_used + PAGE_SIZE) \div PAGE_SIZE) * PAGE_SIZE
    IN  [pmm |-> KReleasePages(s, regions, next_page, brk), brk |-> next_page]

\* The walk of kfree looking for header_ptr in the chain.
RECURSIVE KFreeWalk(_, _, _)
KFreeWalk(mem, current, header_ptr) ==
    IF current > header_ptr THEN FALSE
    ELSE IF current = header_ptr THEN TRUE
    ELSE KFreeWalk(mem, current + mem[current].size, header_ptr)

\* kfree(ptr): [ret, mem, brk, pmm]
kfree(mem, brk, s, regions, ptr) ==
    LET header_ptr == ptr - KMALLOC_HEADER_SIZE
        stay == [ret |-> "panic", mem |-> mem, brk |-> brk, pmm |-> s]
    IN  IF ptr < 0 \/ ptr >= KERNEL_HEAP_SIZE THEN stay
        ELSE IF ~KFreeWalk(mem, 0, header_ptr) THEN stay
        ELSE LET merged == kdefrag([mem EXCEPT ![header_ptr].used = FALSE], 0)
                 freed == free_unused_frames(merged, brk, s, regions)
             IN  [ret |-> IF freed.pmm.panic THEN "panic" ELSE "ok",
                  mem |-> merged, brk |-> freed.brk, pmm |-> freed.pmm]

\* ksize(ptr); PANIC when it panics (pointer outside the arena, block not used)
PANIC == -1

ksize(mem, ptr) ==
    IF ptr < 0 \/ ptr >= KERNEL_HEAP_SIZE THEN PANIC
    ELSE IF ~mem[ptr - KMALLOC_HEADER_SIZE].used THEN PANIC
    ELSE mem[ptr - KMALLOC_HEADER_SIZE].size - KMALLOC_HEADER_SIZE

RECURSIVE KChain(_, _)
KChain(mem, current) ==
    IF current >= KERNEL_HEAP_SIZE \/ current \notin DOMAIN mem \/ mem[current].size <= 0
    THEN <<>>
    ELSE <<current>> \o KChain(mem, current + mem[current].size)

\* The arena bytes the allocator can read again: every read of kmalloc, kfree,
\* kdefrag and get_last_used_address is of a header reached by the walk from
\* KERNEL_HEAP_START, so headers left behind inside a merged block are dropped.
KLive(mem) ==
    LET chain == KChain(mem, 0)
    IN  [o \in {chain[i] : i \in 1..Len(chain)} |-> mem[o]]

\* The lowest-addressed free block of the chain of at least size bytes, -1
\* when there is none.
KLowestFit(mem, size) ==
    LET chain == KChain(mem, 0)
        fits == {o \in {chain[i] : i \in 1..Len(chain)} :
                    ~mem[o].used /\ mem[o].size >= size}
    IN  IF fits = {} THEN -1 ELSE CHOOSE o \in fits : \A x \in fits : o <= x

\* Request sizes and pointers the run passes in.
KSizes == {0, 28, 40, 8188, KERNEL_HEAP_SIZE - KMALLOC_HEADER_SIZE,
           KMALLOC_MAX_ALLOCATION_SIZE}

KPtrs == {o + KMALLOC_HEADER_SIZE : o \in DOMAIN kmem} \cup {0, 16, KERNEL_HEAP_SIZE}

Kmalloc ==
    /\ unit = "kmalloc" /\ ~halted
    /\ Len(KChain(kmem, 0)) < MaxKBlocks
    /\ \E n \in KSizes :
          LET r == kmalloc(kmem, KERNEL_HEAP_BREAK, n)
          IN  /\ kmem' = KLive(r.mem)
              /\ KERNEL_HEAP_BREAK' = r.brk
              /\ halted' = (r.ret = "panic")
              /\ k_last' = [op |-> "kmalloc", n |-> n, ret |-> r.ret, ptr |-> r.ptr,
                            \* lowest free block that fits, before the call
                            lowest |-> KLowestFit(kmem, KRound(n)),
                            \* the kfree of a block in use that this call
                            \* directly follows, if any
                            freed |-> IF /\ k_last.op = "kfree" /\ k_last.ret = "ok"
                                         /\ k_last.live
                                      THEN <<k_last.ptr, k_last.size, k_last.brk_before>>
                                      ELSE <<>>]
    /\ UNCHANGED <<unit, kb, mmu, cpu, overflow_checks, pmm_vars, v_vars, k_stray, k_script, pg_vars>>

Kfree ==
    /\ unit = "kmalloc" /\ ~halted
    /\ \E ptr \in KPtrs :
          LET r == kfree(kmem, KERNEL_HEAP_BREAK, PmmState, usable_regions, ptr)
              header_ptr == ptr - KMALLOC_HEADER_SIZE
          IN  /\ kmem' = KLive(r.mem)
              /\ KERNEL_HEAP_BREAK' = r.brk
              /\ memory_map' = r.pmm.memory_map
              /\ used_blocks' = r.pmm.used_blocks
              /\ halted' = (r.ret = "panic")
              /\ k_last' = [op |-> "kfree", ret |-> r.ret, ptr |-> ptr,
                            size |-> IF r.ret = "ok" THEN kmem[header_ptr].size ELSE 0,
                            live |-> r.ret = "ok" /\ kmem[header_ptr].used,
                            brk_before |-> KERNEL_HEAP_BREAK]
              /\ k_stray' = (k_stray \/ (r.ret = "ok" /\ ~kmem[header_ptr].used))
    /\ UNCHANGED <<unit, kb, mmu, cpu, overflow_checks, max_blocks, usable_regions, memory_size, pmm_last, pmm_run,
                 v_vars, k_script, pg_vars>>

KNext == Kmalloc \/ Kfree

\* kprint_heap: the blocks the dump prints, in order, as [at, size, used].
\* A block is printed when it starts below the break; the dump ends when the
\* block after it would end above the break.
RECURSIVE kprint_heap(_, _, _)
kprint_heap(mem, brk, current) ==
    IF current >= brk THEN <<>>
    ELSE LET next == current + mem[current].size
             line == [at |-> current, size |-> mem[current].size,
                      used |-> mem[current].used]
         IN  IF next >= KERNEL_HEAP_SIZE THEN <<line>>
             ELSE IF next + mem[next].size > brk THEN <<line>>
             ELSE <<line>> \o kprint_heap(mem, brk, next)

\* The allocation scenario: three allocations, the second freed, a fourth
\* allocation; of names the call whose pointer is freed.
KmallocTestCalls ==
    << [op |-> "kmalloc", n |-> 8], [op |-> "kmalloc", n |-> 253],
       [op |-> "kmalloc", n |-> 1020], [op |-> "kfree", of |-> 2],
       [op |-> "kmalloc", n |-> 50] >>

KmallocTest ==
    /\ unit = "kmalloc_test" /\ ~halted
    /\ Len(k_script) < Len(KmallocTestCalls)
    /\ LET call == KmallocTestCalls[Len(k_script) + 1]
       IN  IF call.op = "kmalloc"
           THEN LET r == kmalloc(kmem, KERNEL_HEAP_BREAK, call.n)
                IN  /\ kmem' = KLive(r.mem)
                    /\ KERNEL_HEAP_BREAK' = r.brk
                    /\ halted' = (r.ret = "panic")
                    /\ k_script' = Append(k_script,
                           [ret |-> r.ret, ptr |-> r.ptr, brk |-> KERNEL_HEAP_BREAK])
                    /\ UNCHANGED <<memory_map, used_blocks>>
           ELSE LET r == kfree(kmem, KERNEL_HEAP_BREAK, PmmState, usable_regions,
                               k_script[call.of].ptr)
                IN  /\ kmem' = KLive(r.mem)
                    /\ KERNEL_HEAP_BREAK' = r.brk
                    /\ memory_map' = r.pmm.memory_map
                    /\ used_blocks' = r.pmm.used_blocks
                    /\ halted' = (r.ret = "panic")
                    /\ k_script' = Append(k_script,
                           [ret |-> r.ret, ptr |-> k_script[call.of].ptr,
                            brk |-> KERNEL_HEAP_BREAK])
    /\ UNCHANGED <<unit, kb, mmu, cpu, overflow_checks, max_blocks, usable_regions, memory_size, pmm_last, pmm_run,
                 v_vars, k_last, k_stray, pg_vars>>


(***************************************************************************)
(* Auxiliary heap (vmalloc.rs).  Offsets are bytes from VMALLOC_START; the *)
(* null pointer is NULL.  vmem holds every header the allocator has        *)
(* written, and every uninitialised header it has read and left in place.  *)
(***************************************************************************)
NULL == -1
VMALLOC_MAGIC == 51966
USED == 1
FREE == 0
VMALLOC_HEADER_SIZE == 16
VMALLOC_ARENA_SIZE == 201326592
VMALLOC_MAX_ALLOCATION_SIZE == 1048608

\* The page loops of vbrk, computed without iterating: the loop leaves at the
\* first step at which the break equals the arena's end (its start), which
\* exists only when the break is a whole number of pages away from it.
\* A raising loop without the test against VMALLOC_END.
VbrkUpUnchecked(brk, frame_number) ==
    IF frame_number <= 0 THEN brk ELSE brk + frame_number * PAGE_SIZE

VbrkUp(brk, frame_number) ==
    LET gap == VMALLOC_ARENA_SIZE - brk
    IN  IF frame_number <= 0 THEN brk
        ELSE IF gap >= 0 /\ gap % PAGE_SIZE = 0 /\ gap \div PAGE_SIZE < frame_number
        THEN VMALLOC_ARENA_SIZE
        ELSE brk + frame_number * PAGE_SIZE

VbrkDown(brk, frame_number) ==
    IF frame_number <= 0 THEN brk
    ELSE IF brk >= 0 /\ brk % PAGE_SIZE = 0 /\ brk \div PAGE_SIZE < frame_number
    THEN 0
    ELSE brk - frame_number * PAGE_SIZE

vbrk(brk, increment) ==
    IF increment > 0 THEN VbrkUp(brk, (increment + 1) \div PAGE_SIZE + 1)
    ELSE IF increment < 0 THEN VbrkDown(brk, (0 - (increment - 1)) \div PAGE_SIZE - 1)
    ELSE brk

\* The addresses vbrk hands to map_address (unmap_address), as the run
\* <<first, last>> of their pages: the break at the head of each iteration
\* of its loop.
vbrk_pages(brk, increment) ==
    LET new == vbrk(brk, increment)
        page == brk \div PAGE_SIZE
    IN  IF increment > 0
        THEN {<<page, page + n - 1>> : n \in {(new - brk) \div PAGE_SIZE} \ {0}}
        ELSE {<<page - n + 1, page>> : n \in {(brk - new) \div PAGE_SIZE} \ {0}}

\* The mapped pages, kept as their maximal runs <<first, last>>, after the
\* pages of the runs in pages are made present or not present.
PageRuns(mapped, pages, present) ==
    LET Covers(S, p) == \E r \in S : r[1] <= p /\ p <= r[2]
        In(p) == IF Covers(pages, p) THEN present ELSE Covers(mapped, p)
        points == UNION {{r[1] - 1, r[1], r[2], r[2] + 1} : r \in mapped \cup pages}
    IN  {r \in points \X points :
            /\ r[1] <= r[2] /\ ~In(r[1] - 1) /\ ~In(r[2] + 1)
            /\ \A p \in points : (r[1] <= p /\ p <= r[2]) => In(p)}

\* map_address makes the page of the address present, unmap_address takes
\* it away (the paging layer's map and unmap).
map_address(mapped, pages) == PageRuns(mapped, pages, TRUE)

unmap_address(mapped, pages) == PageRuns(mapped, pages, FALSE)

new_header(prev, next, size, used) ==
    [prev |-> prev, next |-> next, size |-> size, magic |-> VMALLOC_MAGIC, used |-> used]

reset == [prev |-> NULL, next |-> NULL, size |-> 0, magic |-> 0, used |-> 0]

\* vheap_init: the break is raised by vbrk(MAX_ALLOCATION_SIZE) and one free
\* header of MAX_ALLOCATION_SIZE bytes is written at VMALLOC_START.
vheap_init ==
    [mem |-> Put(<<>>, 0, new_header(NULL, NULL, VMALLOC_MAX_ALLOCATION_SIZE, FREE)),
     brk |-> vbrk(0, VMALLOC_MAX_ALLOCATION_SIZE),
     mapped |-> map_address({}, vbrk_pages(0, VMALLOC_MAX_ALLOCATION_SIZE))]

VRoundDown(n) ==
    LET size == n + VMALLOC_HEADER_SIZE
    IN  size - (size % MIN_ALLOCATION_SIZE)

VRound(n) ==
    LET size == n + VMALLOC_HEADER_SIZE
        remaining == size % MIN_ALLOCATION_SIZE
    IN  IF remaining # 0 THEN size + (MIN_ALLOCATION_SIZE - remaining) ELSE size

\* What a header location never written by the allocator may hold: the fields
\* the allocator tests on it (magic, used) and the link its walk follows from
\* it (next: none or, in one image, SELF, the address of the location
\* itself), the rest read as zero bytes.
SELF == -3

Uninit == {[prev |-> NULL, next |-> NULL, size |-> 0, magic |-> m, used |-> u] :
              m \in {0, VMALLOC_MAGIC}, u \in {FREE, USED}}
          \cup {[prev |-> NULL, next |-> SELF, size |-> 0, magic |-> 0, used |-> USED]}

\* The first-fit walk of vmalloc: the selected header, NULL when the walk ends
\* without one, HANG when it never ends (the links lead back to a header
\* already visited).
HANG == -2

RECURSIVE VFind(_, _, _, _, _)
VFind(mem, brk, current, size, seen) ==
    IF current = NULL \/ current >= brk THEN NULL
    ELSE IF current \in seen THEN HANG
    ELSE IF mem[current].used = FREE /\ mem[current].size >= size THEN current
    ELSE VFind(mem, brk, mem[current].next, size, seen \cup {current})

\* vmalloc(n), g being what the bytes at the split point hold when the
\* allocator never wrote them: [ret, ptr, mem]
vmalloc(mem, brk, n, g) ==
    LET size == VRound(n) IN
    IF size > VMALLOC_MAX_ALLOCATION_SIZE
    THEN [ret |-> "none", ptr |-> NULL, uninit |-> FALSE, mem |-> mem]
    ELSE LET current == VFind(mem, brk, 0, size, {}) IN
    IF current = HANG THEN [ret |-> "hang", ptr |-> NULL, uninit |-> FALSE, mem |-> mem]
    ELSE IF current = NULL THEN [ret |-> "none", ptr |-> NULL, uninit |-> FALSE, mem |-> mem]
    ELSE LET vheader == mem[current]
             next_header == current + size
             found == IF next_header \in DOMAIN mem THEN mem[next_header]
                      ELSE IF g.next = SELF THEN [g EXCEPT !.next = next_header]
                      ELSE g
             split == IF found.magic # VMALLOC_MAGIC /\ found.used # USED
                      THEN Put(mem, next_header,
                               new_header(current, vheader.next, vheader.size - size, FREE))
                      ELSE Put(mem, next_header, found)
         IN  [ret |-> "ok", ptr |-> current + VMALLOC_HEADER_SIZE,
              uninit |-> next_header \notin DOMAIN mem /\ g # reset,
              mem |-> Put(split, current, new_header(vheader.prev, next_header, size, USED))]

\* The coalescing of kfree with the next block.
VMergeNext(mem, h) ==
    LET n == mem[h].next IN
    IF n # NULL /\ mem[n].used = FREE
    THEN LET m1 == [mem EXCEPT ![h].size = @ + mem[n].size, ![h].next = mem[n].next]
             nn == mem[n].next
             m2 == IF nn # NULL THEN [m1 EXCEPT ![nn].prev = h] ELSE m1
         IN  [m2 EXCEPT ![n] = reset]
    ELSE mem

\* The coalescing of kfree with the previous block.
VMergePrev(mem, h) ==
    LET p == mem[h].prev IN
    IF p # NULL /\ mem[p].used = FREE
    THEN LET m1 == [mem EXCEPT ![p].size = @ + mem[h].size, ![p].next = mem[h].next]
             n == mem[h].next
             m2 == IF n # NULL THEN [m1 EXCEPT ![n].prev = p] ELSE m1
         IN  [m2 EXCEPT ![h] = reset]
    ELSE mem

\* What vmalloc(n) may find at its split point: the header the allocator left
\* there, or any of Uninit where it left none.
VSplitReads(mem, brk, n) ==
    LET current == VFind(mem, brk, 0, VRound(n), {})
    IN  IF current \in DOMAIN mem /\ current + VRound(n) \notin DOMAIN mem
        THEN Uninit ELSE {reset}

\* kfree(vmalloc_address) of vmalloc.rs: [ret, mem]
vfree(mem, vmalloc_address) ==
    LET h == vmalloc_address - VMALLOC_HEADER_SIZE IN
    IF mem[h].magic # VMALLOC_MAGIC THEN [ret |-> "invalid", mem |-> mem]
    ELSE IF mem[h].used = 0 THEN [ret |-> "double", mem |-> mem]
    ELSE [ret |-> "ok",
          mem |-> VMergePrev(VMergeNext([mem EXCEPT ![h].used = FREE], h), h)]

vsize(mem, vmalloc_address) ==
    LET header == mem[vmalloc_address - VMALLOC_HEADER_SIZE] IN
    IF header.magic # VMALLOC_MAGIC \/ header.used # USED THEN 0 ELSE header.size

\* The headers met from VMALLOC_START by following next.
RECURSIVE VChain(_, _, _)
VChain(mem, current, seen) ==
    IF current = NULL \/ current \in seen \/ current \notin DOMAIN mem THEN <<>>
    ELSE <<current>> \o VChain(mem, mem[current].next, seen \cup {current})

\* The headers the allocator can read again: those reached from VMALLOC_START
\* through next and prev links.  Any other location lies inside a block, where
\* it holds whatever the block's owner stored: it is read like a location never
\* written.
RECURSIVE VReach(_, _)
VReach(mem, set) ==
    LET more == {x \in {mem[o].next : o \in set} \cup {mem[o].prev : o \in set} :
                    x \in DOMAIN mem} \ set
    IN  IF more = {} THEN set ELSE VReach(mem, set \cup more)

VLive(mem) == [o \in VReach(mem, {0}) |-> mem[o]]

\* The bytes the chain from VMALLOC_START accounts for.
RECURSIVE VTotal(_, _)
VTotal(mem, chain) ==
    IF chain = <<>> THEN 0 ELSE mem[Head(chain)].size + VTotal(mem, Tail(chain))

\* The bytes of the initial block the chain has lost (negative: counts twice).
VDrift(mem) == VMALLOC_MAX_ALLOCATION_SIZE - VTotal(mem, VChain(mem, 0, {}))

VBounded == VDrift(vmem) <= MaxVDrift /\ 0 - VDrift(vmem) <= MaxVDrift

\* The lowest-addressed free block of the chain of at least size bytes, NULL
\* when there is none.
VLowestFit(mem, size) ==
    LET chain == VChain(mem, 0, {})
        fits == {o \in {chain[i] : i \in 1..Len(chain)} :
                    mem[o].used = FREE /\ mem[o].size >= size}
    IN  IF fits = {} THEN NULL ELSE CHOOSE o \in fits : \A x \in fits : o <= x

VSizes == {10, 48, 1048592, 1048593}

VPtrs == {o + VMALLOC_HEADER_SIZE : o \in DOMAIN vmem}

Vmalloc ==
    /\ unit = "vmalloc" /\ ~halted /\ VBounded
    /\ Len(VChain(vmem, 0, {})) < MaxVBlocks
    /\ \E n \in VSizes : \E g \in VSplitReads(vmem, VMALLOC_BREAK, n) :
          LET r == vmalloc(vmem, VMALLOC_BREAK, n, g)
          IN  /\ vmem' = VLive(r.mem)
              /\ halted' = (r.ret = "hang")
              /\ v_last' = [op |-> "vmalloc", n |-> n, ret |-> r.ret, ptr |-> r.ptr,
                            \* lowest free block that fits, before the call
                            lowest |-> VLowestFit(vmem, VRound(n))]
              /\ v_uninit' = (v_uninit \/ r.uninit)
    /\ UNCHANGED <<unit, kb, mmu, cpu, overflow_checks, pmm_vars, k_vars, VMALLOC_BREAK, v_mapped, pg_vars>>

Vfree ==
    /\ unit = "vmalloc" /\ ~halted /\ VBounded
    /\ \E ptr \in VPtrs :
          LET r == vfree(vmem, ptr)
          IN  /\ vmem' = VLive(r.mem)
              /\ v_last' = [op |-> "kfree", n |-> 0, ret |-> r.ret, ptr |-> ptr]
    /\ UNCHANGED <<unit, kb, mmu, cpu, halted, overflow_checks, pmm_vars, k_vars, VMALLOC_BREAK, v_uninit,
                 v_mapped, pg_vars>>

VNext == Vmalloc \/ Vfree

\* Increments handed to vbrk: one of vmalloc_test, the one of vheap_init
\* (257 pages up), one that lowers the break as many pages, and the whole
\* arena either way.
VbrkIncrements ==
    {0, 0 - 300, VMALLOC_MAX_ALLOCATION_SIZE,
     0 - (VMALLOC_MAX_ALLOCATION_SIZE + 2 * PAGE_SIZE),
     VMALLOC_ARENA_SIZE, 0 - VMALLOC_ARENA_SIZE}

Vbrk ==
    /\ unit = "vbrk" /\ ~halted
    /\ \E increment \in VbrkIncrements :
          /\ VMALLOC_BREAK' = vbrk(VMALLOC_BREAK, increment)
          /\ v_last' = [op |-> "vbrk",
                        \* the loop left before its last step
                        clamped |-> vbrk(VMALLOC_BREAK, increment)
                                    # VMALLOC_BREAK + increment
                                    /\ vbrk(VMALLOC_BREAK, increment)
                                       \in {0, VMALLOC_ARENA_SIZE}]
          /\ v_mapped' = IF increment > 0
                          THEN map_address(v_mapped, vbrk_pages(VMALLOC_BREAK, increment))
                          ELSE unmap_address(v_mapped, vbrk_pages(VMALLOC_BREAK, increment))
    /\ UNCHANGED <<unit, kb, mmu, cpu, halted, overflow_checks, pmm_vars, k_vars, vmem, v_uninit,
                 pg_vars>>

(***************************************************************************)
(* Paging (page_directory.rs, page_table.rs, page_table_entry.rs).  A      *)
(* 32-bit address is [page, off]; an entry's value is [page, low], its     *)
(* bits 12..31 as a page number and the set of flags held in bits 0..11.   *)
(* Of the 1024 x 1024 entries the model holds those of the pages PgPages.  *)
(***************************************************************************)
ENTRY_COUNT == 1024
\* PageTableFlags::FRAME = 0x7FFFF000 keeps 19 bits of the page number;
\* PageDirectoryFlags::FRAME = 0xFFFFF000 keeps all 20.
PageTableFlags_FRAME == 524288
PageDirectoryFlags_FRAME == 1048576

\* PAGE_TABLES_ADDR as a page number: the tables end one page below the heap.
PAGE_TABLES_PAGE == KERNEL_HEAP_START_PAGE - 1 - ENTRY_COUNT

\* value = (value & !FRAME) | (frame & FRAME); a misaligned frame is refused
PageTableEntry_set_frame_address(entry, frame) ==
    IF frame.off # 0 THEN entry
    ELSE [entry EXCEPT !.page = (@ \div PageTableFlags_FRAME) * PageTableFlags_FRAME
                                + (frame.page % PageTableFlags_FRAME)]

PageTableEntry_add_attribute(entry, attribute) ==
    [entry EXCEPT !.low = @ \cup attribute]

\* value &= !attribute
PageTableEntry_remove_attribute(entry, attribute) ==
    [entry EXCEPT !.low = @ \ attribute]

PageTableEntry_is_present(entry) == "PRESENT" \in entry.low

\* value & FRAME, as an address
PageTableEntry_frame(entry) ==
    [page |-> entry.page % PageTableFlags_FRAME, off |-> 0]

PageTable_virt_to_index(virt_addr) == virt_addr.page % ENTRY_COUNT

\* PageTable::translate: [ret, phys]
PageTable_translate(table, virt_addr) ==
    LET entry == table[PageTable_virt_to_index(virt_addr)]
    IN  IF PageTableEntry_is_present(entry)
        THEN [ret |-> "some",
              phys |-> [page |-> PageTableEntry_frame(entry).page,
                        off |-> virt_addr.off]]
        ELSE [ret |-> "none", phys |-> [page |-> 0, off |-> 0]]

\* PageTable::unmap: the entry of virt_addr loses PRESENT.
PageTable_unmap(table, virt_addr) ==
    [table EXCEPT ![PageTable_virt_to_index(virt_addr)] =
        PageTableEntry_remove_attribute(@, {"PRESENT"})]

\* PageTable::map(index, frame, flags): the entry becomes frame | flags |
\* PRESENT (frame is page-aligned, so its bits and the flags do not meet).
PageTable_map(table, index, frame, flags) ==
    [table EXCEPT ![index] = [page |-> frame.page, low |-> flags \cup {"PRESENT"}]]

PageDirectoryEntry_set_frame(entry, frame) ==
    [entry EXCEPT !.page = (@ \div PageDirectoryFlags_FRAME) * PageDirectoryFlags_FRAME
                            + (frame.page % PageDirectoryFlags_FRAME)]

PageDirectoryEntry_add_attribute(entry, attrib) ==
    [entry EXCEPT !.low = @ \cup attrib]

\* The bits of an entry's low 12 that no flag of PageTableFlags names
\* (bits 10 and 11).
UnnamedBits == {"BIT10", "BIT11"}

\* PageTableEntry::set_flags: value = (value & !PageTableFlags::all()) | flags.
\* all() holds FRAME (bits 12..30) and the ten named flags, so of the old
\* value only bit 31 and the unnamed bits stay.
PageTableEntry_set_flags(entry, flags) ==
    [page |-> (entry.page \div PageTableFlags_FRAME) * PageTableFlags_FRAME,
     low |-> (entry.low \cap UnnamedBits) \cup flags]

\* The Result of PageTableEntry::set_frame_address.
PageTableEntry_set_frame_address_result(frame) ==
    IF frame.off # 0 THEN "Err" ELSE "Ok"

\* PageDirectoryEntry::set_address: value = (value & !FRAME) | (frame & FRAME)
PageDirectoryEntry_set_address(entry, frame) ==
    [entry EXCEPT !.page = (@ \div PageDirectoryFlags_FRAME) * PageDirectoryFlags_FRAME
                            + (frame.page % PageDirectoryFlags_FRAME)]

\* PageDirectoryEntry::set_flags: the same expression as PageTableEntry's,
\* with PageTableFlags::all().
PageDirectoryEntry_set_flags(entry, flags) ==
    [page |-> (entry.page \div PageTableFlags_FRAME) * PageTableFlags_FRAME,
     low |-> (entry.low \cap UnnamedBits) \cup flags]

\* PageDirectoryEntry::set: set_address(frame); set_flags(flags | PRESENT)
PageDirectoryEntry_set(entry, frame, flags) ==
    PageDirectoryEntry_set_flags(PageDirectoryEntry_set_address(entry, frame),
                                 flags \cup {"PRESENT"})

\* PageDirectoryEntry::address: value & FRAME, as an address
PageDirectoryEntry_address(entry) ==
    [page |-> entry.page % PageDirectoryFlags_FRAME, off |-> 0]

\* get_page_table: the directory index of the table the entry points to,
\* -1 for None.
PageDirectoryEntry_get_page_table(entry) ==
    IF "PRESENT" \in entry.low THEN entry.page - PAGE_TABLES_PAGE ELSE 0 - 1

\* PageDirectory::map: [panic, directory, tables]
PageDirectory_map(directory, tables, virtual_address, frame, flags) ==
    LET index == (virtual_address.page \div ENTRY_COUNT) % ENTRY_COUNT
        table_index == virtual_address.page % ENTRY_COUNT
        entry == PageDirectoryEntry_add_attribute(directory[index], flags)
        page_table == PageDirectoryEntry_get_page_table(entry)
        dir == [directory EXCEPT ![index] = entry]
    IN  IF page_table < 0
        THEN [panic |-> TRUE, directory |-> dir, tables |-> tables]
        ELSE [panic |-> FALSE, directory |-> dir,
              tables |-> [tables EXCEPT ![page_table] =
                             PageTable_map(@, table_index, frame,
                                           {"PRESENT", "WRITABLE"})]]

\* Pages whose entries the model holds, and what the run maps them to.
PgPages == {HIGH_KERNEL_OFFSET_PAGE, HIGH_KERNEL_OFFSET_PAGE + 1,
            HIGH_KERNEL_OFFSET_PAGE + 2 * ENTRY_COUNT - 1}

PgOffsets == {0, 16}

PgFrames == {1, PageTableFlags_FRAME, PageDirectoryFlags_FRAME - 1}

\* Directory slots the model holds: those of PgPages and slot 0 of the
\* user half.
PgDirs == {q \div ENTRY_COUNT : q \in PgPages} \cup {0}

PgIndexes == {q % ENTRY_COUNT : q \in PgPages}

\* What the memory of the tables and of the directory may hold before
\* init_pages, which writes the frame bits and adds flags to what is there.
PgGarbage == {[page |-> 0, low |-> {}],
              [page |-> PageTableFlags_FRAME, low |-> {"USER"}]}

\* init_pages: every entry j of table i is given the frame (i << 22) | (j << 12)
\* and PRESENT | WRITABLE; directory slot i is given table i.
init_pages(old) ==
    [directory |->
        [i \in PgDirs |->
            PageDirectoryEntry_add_attribute(
                PageDirectoryEntry_set_frame(old, [page |-> PAGE_TABLES_PAGE + i, off |-> 0]),
                {"PRESENT", "WRITABLE"})],
     tables |->
        [i \in PgDirs |-> [j \in PgIndexes |->
            PageTableEntry_add_attribute(
                PageTableEntry_set_frame_address(old,
                    [page |-> i * ENTRY_COUNT + j, off |-> 0]),
                {"PRESENT", "WRITABLE"})]]]

InitPaging(old) ==
    /\ pg_directory = init_pages(old).directory
    /\ pg_tables = init_pages(old).tables
    /\ pg_fresh = TRUE
    /\ pg_last = NoCall

PgMap ==
    /\ (unit = "paging" \/ (unit = "boot" /\ mmu.pc = "active")) /\ ~halted
    /\ \E q \in PgPages, f \in PgFrames :
          LET r == PageDirectory_map(pg_directory, pg_tables, [page |-> q, off |-> 0],
                                     [page |-> f, off |-> 0], {"WRITABLE"})
          IN  /\ pg_directory' = r.directory
              /\ pg_tables' = r.tables
              /\ halted' = r.panic
              /\ pg_last' = [op |-> "map", page |-> q, frame |-> f]
    /\ pg_fresh' = FALSE
    /\ UNCHANGED <<unit, kb, mmu, cpu, overflow_checks, pmm_vars, k_vars, v_vars>>

PgTranslate ==
    /\ unit = "paging" /\ ~halted
    /\ \E q \in PgPages, o \in PgOffsets :
          LET index == (q \div ENTRY_COUNT) % ENTRY_COUNT
              page_table == PageDirectoryEntry_get_page_table(pg_directory[index])
              r == PageTable_translate(pg_tables[page_table], [page |-> q, off |-> o])
          IN  /\ page_table >= 0
              /\ pg_last' = [op |-> "translate", va |-> [page |-> q, off |-> o],
                             ret |-> r.ret, phys |-> r.phys,
                             stored |-> PageTableEntry_frame(
                                            pg_tables[page_table][q % ENTRY_COUNT]).page,
                             \* the frame the page was mapped to by the call
                             \* just before, if that was a map of this page
                             mapped |-> IF pg_last.op = "map" /\ pg_last.page = q
                                        THEN pg_last.frame ELSE 0 - 1,
                             fresh |-> pg_fresh]
    /\ UNCHANGED <<unit, kb, mmu, cpu, halted, overflow_checks, pmm_vars, k_vars, v_vars,
                   pg_directory, pg_tables, pg_fresh>>

\* unmap of a page in the table its directory slot points to
PgUnmap ==
    /\ (unit = "paging" \/ (unit = "boot" /\ mmu.pc = "active")) /\ ~halted
    /\ \E q \in {HIGH_KERNEL_OFFSET_PAGE} :
          LET index == (q \div ENTRY_COUNT) % ENTRY_COUNT
              page_table == PageDirectoryEntry_get_page_table(pg_directory[index])
              entry == pg_tables[page_table][q % ENTRY_COUNT]
          IN  /\ page_table >= 0
              /\ pg_tables' = [pg_tables EXCEPT ![page_table] =
                                  PageTable_unmap(@, [page |-> q, off |-> 0])]
              /\ pg_last' = [op |-> "unmap", page |-> q,
                             present |-> PageTableEntry_is_present(entry),
                             frame |-> PageTableEntry_frame(entry).page,
                             used_before |-> used_blocks]
    /\ pg_fresh' = FALSE
    /\ UNCHANGED <<unit, kb, mmu, cpu, halted, overflow_checks, pmm_vars, k_vars, v_vars, pg_directory>>

\* The entry-setting operations applied to the directory slot and the table
\* entry of the pages EPages, with the frames EFrames (one of them not
\* page-aligned) and the flags EFlags.
EPages == {HIGH_KERNEL_OFFSET_PAGE}

EFrames == {[page |-> 1, off |-> 0], [page |-> 1, off |-> 16]}

EFlags == {{}, {"WRITABLE"}}

EntryOps == {"PageTableEntry::set_frame_address", "PageTableEntry::set_flags",
             "PageDirectoryEntry::set", "PageDirectoryEntry::set_address",
             "PageDirectoryEntry::set_frame", "PageDirectoryEntry::set_flags"}

\* The entry after op(frame, flags) on it.
EntryApply(op, entry, frame, flags) ==
    CASE op = "PageTableEntry::set_frame_address" ->
             PageTableEntry_set_frame_address(entry, frame)
      [] op = "PageTableEntry::set_flags" -> PageTableEntry_set_flags(entry, flags)
      [] op = "PageDirectoryEntry::set" -> PageDirectoryEntry_set(entry, frame, flags)
      [] op = "PageDirectoryEntry::set_address" ->
             PageDirectoryEntry_set_address(entry, frame)
      [] op = "PageDirectoryEntry::set_frame" -> PageDirectoryEntry_set_frame(entry, frame)
      [] op = "PageDirectoryEntry::set_flags" -> PageDirectoryEntry_set_flags(entry, flags)

EntryOnTable(op) ==
    op \in {"PageTableEntry::set_frame_address", "PageTableEntry::set_flags"}

EntrySet ==
    /\ unit = "entry" /\ ~halted
    /\ \E q \in EPages, op \in EntryOps, frame \in EFrames, flags \in EFlags :
          LET i == q \div ENTRY_COUNT
              j == q % ENTRY_COUNT
              before == IF EntryOnTable(op) THEN pg_tables[i][j] ELSE pg_directory[i]
              after == EntryApply(op, before, frame, flags)
          IN  /\ pg_tables' = IF EntryOnTable(op)
                              THEN [pg_tables EXCEPT ![i][j] = after] ELSE pg_tables
              /\ pg_directory' = IF EntryOnTable(op) THEN pg_directory
                                 ELSE [pg_directory EXCEPT ![i] = after]
              /\ pg_last' = [op |-> op, frame |-> frame, flags |-> flags,
                             before |-> before, after |-> after,
                             ret |-> IF op = "PageTableEntry::set_frame_address"
                                     THEN PageTableEntry_set_frame_address_result(frame)
                                     ELSE "Ok"]
    /\ pg_fresh' = FALSE
    /\ UNCHANGED <<unit, kb, mmu, cpu, halted, overflow_checks, pmm_vars, k_vars, v_vars>>

PgNext == PgMap \/ PgTranslate \/ PgUnmap \/ EntrySet

(***************************************************************************)
(* The page-fault handler (exceptions/interrupts.rs).                      *)
(***************************************************************************)
\* error_code & mask != 0, mask a power of two
ErrorBit(error_code, mask) == (error_code \div mask) % 2 = 1

\* The two-argument PageTableEntry::set_frame_address(frame, flags) the
\* handler calls: the entry holds the frame with the flags given.
PageTableEntry_set_frame_address_flags(entry, frame, flags) ==
    [page |-> frame.page, low |-> flags]

\* handle_not_present_page_fault: [s, tables]
handle_not_present_page_fault(s, max, tables, faulting_address) ==
    LET pd_index == faulting_address.page \div ENTRY_COUNT
        pt_index == faulting_address.page % ENTRY_COUNT
        frame == allocate_frame(s, max)
    IN  IF frame.ok /\ ~frame.s.panic
        THEN [s |-> frame.s,
              tables |-> [tables EXCEPT ![pd_index][pt_index] =
                             PageTableEntry_set_frame_address_flags(@,
                                 [page |-> frame.address \div PAGE_SIZE, off |-> 0],
                                 {"PRESENT", "WRITABLE"})]]
        ELSE [s |-> frame.s, tables |-> tables]

\* page_fault: [s, tables] with s.panic set when the handler panics
page_fault(s, max, tables, error_code, faulting_address) ==
    LET present == ErrorBit(error_code, 1)
        write == ErrorBit(error_code, 2)
        user == ErrorBit(error_code, 4)
        reserved == ErrorBit(error_code, 8)
        instruction_fetch == ErrorBit(error_code, 16)
    IN  IF ~present THEN handle_not_present_page_fault(s, max, tables, faulting_address)
        ELSE IF write THEN [s |-> s, tables |-> tables]
        ELSE IF user THEN [s |-> s, tables |-> tables]
        ELSE IF reserved THEN [s |-> [s EXCEPT !.panic = TRUE], tables |-> tables]
        ELSE IF instruction_fetch THEN [s |-> [s EXCEPT !.panic = TRUE], tables |-> tables]
        ELSE [s |-> s, tables |-> tables]

\* The error codes the processor pushes: five bits.
ErrorCodes == 0..31

\* The pages the run faults on.
FaultPages == {HIGH_KERNEL_OFFSET_PAGE, HIGH_KERNEL_OFFSET_PAGE + 1}

PageFault ==
    /\ unit = "fault" /\ ~halted
    /\ \E error_code \in ErrorCodes, q \in FaultPages :
          LET r == page_fault(PmmState, max_blocks, pg_tables, error_code,
                              [page |-> q, off |-> 0])
          IN  /\ AdoptPmm(r.s)
              /\ pg_tables' = r.tables
              /\ pg_last' = [op |-> "page_fault", error_code |-> error_code,
                             va |-> [page |-> q, off |-> 0]]
    /\ pg_fresh' = FALSE
    /\ UNCHANGED <<unit, kb, mmu, cpu, overflow_checks, max_blocks, usable_regions, memory_size, pmm_last, pmm_run,
                   k_vars, v_vars, pg_directory>>

\* The foreground frees frame 0 while it is in use.
FaultDeallocate ==
    /\ unit = "fault" /\ ~halted
    /\ mmap_test(memory_map, 0)
    /\ AdoptPmm(deallocate_frame(PmmState, usable_regions, [page |-> 0, off |-> 0]))
    /\ pg_last' = [op |-> "deallocate_frame", address |-> 0]
    /\ UNCHANGED <<unit, kb, mmu, cpu, overflow_checks, max_blocks, usable_regions, memory_size, pmm_last, pmm_run,
                   k_vars, v_vars, pg_directory, pg_tables, pg_fresh>>

FaultNext == PageFault \/ FaultDeallocate

(***************************************************************************)
(* PMM's lock and the page-fault handler on one core (spin::Mutex of       *)
(* physical_memory_managment.rs, handler of exceptions/interrupts.rs).     *)
(* An access to a page whose entry is not PRESENT raises the fault in the  *)
(* context that made it; the interrupted context runs again only when the  *)
(* handler returns.                                                        *)
(***************************************************************************)
\* The page that holds the frame bitmap (MEMORY_MAP = &_kernel_end).
MEMORY_MAP_PAGE == HIGH_KERNEL_OFFSET_PAGE + 1

\* Whether the entry of the page is PRESENT in the tables.
Resident(tables, q) ==
    PageTableEntry_is_present(tables[q \div ENTRY_COUNT][q % ENTRY_COUNT])

\* PageTableEntry::alloc_new once the lock is taken: [s, entry], s.panic set
\* by frame.unwrap() on Err
PageTableEntry_alloc_new(s, max, entry) ==
    LET frame == allocate_frame(s, max)
    IN  IF ~frame.ok THEN [s |-> [s EXCEPT !.panic = TRUE], entry |-> entry]
        ELSE [s |-> frame.s,
              entry |-> PageTableEntry_add_attribute(
                            PageTableEntry_set_frame_address(entry,
                                [page |-> frame.address \div PAGE_SIZE, off |-> 0]),
                            {"PRESENT", "WRITABLE"})]

Top == cpu.stack[Len(cpu.stack)]

Foreground == Len(cpu.stack) = 1

SetTop(pc) == [cpu.stack EXCEPT ![Len(cpu.stack)].pc = pc]

InitCpu == cpu = [holder |-> 0, stack |-> <<[pc |-> "run", va |-> 0]>>]

\* The foreground unmaps a page.
LockUnmap ==
    /\ unit = "lock" /\ ~halted /\ Foreground /\ Top.pc = "run"
    /\ \E q \in FaultPages :
          /\ pg_tables' = [pg_tables EXCEPT ![q \div ENTRY_COUNT] =
                              PageTable_unmap(@, [page |-> q, off |-> 0])]
          /\ pg_last' = [op |-> "unmap", page |-> q]
    /\ UNCHANGED <<unit, kb, mmu, cpu, halted, overflow_checks, pmm_vars, k_vars, v_vars,
                   pg_directory, pg_fresh>>

\* The foreground touches a page: a page that is not resident faults.
LockTouch ==
    /\ unit = "lock" /\ ~halted /\ Foreground /\ Top.pc = "run"
    /\ \E q \in FaultPages :
          /\ ~Resident(pg_tables, q)
          /\ cpu' = [cpu EXCEPT !.stack = Append(@, [pc |-> "page_fault", va |-> q])]
          /\ pg_last' = [op |-> "touch", page |-> q]
    /\ UNCHANGED <<unit, kb, mmu, halted, overflow_checks, pmm_vars, k_vars, v_vars,
                   pg_directory, pg_tables, pg_fresh>>

\* PMM.lock(), by the foreground in alloc_new on the entry of page va, or by
\* the handler: taken when free; spin::Mutex spins while it is held, and its
\* holder, interrupted, does not run.
LockAcquire ==
    /\ unit = "lock" /\ ~halted
    /\ \/ /\ Foreground /\ Top.pc = "run"
          /\ \E q \in FaultPages :
                cpu' = [holder |-> 1, stack |-> <<[pc |-> "locked", va |-> q]>>]
       \/ /\ ~Foreground /\ Top.pc = "page_fault"
          /\ cpu' = IF cpu.holder = 0
                    THEN [holder |-> Len(cpu.stack), stack |-> SetTop("locked")]
                    ELSE [cpu EXCEPT !.stack = SetTop("spin")]
    /\ pg_last' = [op |-> "lock"]
    /\ UNCHANGED <<unit, kb, mmu, halted, overflow_checks, pmm_vars, k_vars, v_vars,
                   pg_directory, pg_tables, pg_fresh>>

\* The holder of the lock runs allocate_frame, which reads the bitmap: with
\* the bitmap's page resident the call completes, the lock is released and
\* the entry is written (the handler then returns to what it interrupted);
\* otherwise the access faults.
LockAllocate ==
    /\ unit = "lock" /\ ~halted /\ Top.pc = "locked"
    /\ IF Resident(pg_tables, MEMORY_MAP_PAGE)
       THEN LET i == Top.va \div ENTRY_COUNT
                j == Top.va % ENTRY_COUNT
                a == PageTableEntry_alloc_new(PmmState, max_blocks, pg_tables[i][j])
                h == handle_not_present_page_fault(PmmState, max_blocks, pg_tables,
                                                   [page |-> Top.va, off |-> 0])
            IN  IF Foreground
                THEN /\ AdoptPmm(a.s)
                     /\ pg_tables' = [pg_tables EXCEPT ![i][j] = a.entry]
                     /\ cpu' = [holder |-> 0, stack |-> SetTop("run")]
                ELSE /\ AdoptPmm(h.s)
                     /\ pg_tables' = h.tables
                     /\ cpu' = [holder |-> 0,
                                stack |-> SubSeq(cpu.stack, 1, Len(cpu.stack) - 1)]
       ELSE /\ cpu' = [cpu EXCEPT !.stack =
                           Append(@, [pc |-> "page_fault", va |-> MEMORY_MAP_PAGE])]
            /\ UNCHANGED <<memory_map, used_blocks, halted, pg_tables>>
    /\ pg_last' = [op |-> "allocate_frame"]
    /\ UNCHANGED <<unit, kb, mmu, overflow_checks, max_blocks, usable_regions, memory_size, pmm_last, pmm_run,
                   k_vars, v_vars, pg_directory, pg_fresh>>

LockNext == LockUnmap \/ LockTouch \/ LockAcquire \/ LockAllocate

(***************************************************************************)
(* The keyboard (exceptions/keyboard.rs, exceptions/interrupts.rs) and the *)
(* main loop of _start (lib.rs).  The interrupt handler runs to its end    *)
(* between any two steps of the main loop.  The n-th key press delivers    *)
(* the scancode n.                                                         *)
(***************************************************************************)
SCANCODE_BUFFER_LEN == 128

\* process_keyboard_input with the flag cleared when the drain loop is left.
process_keyboard_inputClearLast(k) ==
    IF k.pc = "call"
    THEN [k EXCEPT !.pc = IF k.KEYBOARD_INTERRUPT_RECEIVED THEN "test" ELSE "returned"]
    ELSE IF k.pc = "store"
    THEN [k EXCEPT !.KEYBOARD_INTERRUPT_RECEIVED = FALSE, !.pc = "returned"]
    ELSE IF k.pc = "test"
    THEN [k EXCEPT !.pc = IF k.BUFFER_TAIL # k.BUFFER_HEAD THEN "read" ELSE "store"]
    ELSE [k EXCEPT !.BUFFER_TAIL = (@ + 1) % SCANCODE_BUFFER_LEN,
                   !.read = @ + 1,
                   !.in_order = @ /\ k.SCANCODE_BUFFER[k.BUFFER_TAIL + 1] = k.read + 1,
                   !.pc = "test"]

\* One step of process_keyboard_input: the load of the flag ("call"), its
\* store(false) ("store"), the test of the drain loop ("test"), one
\* iteration of it ("read").
process_keyboard_input(k) ==
    IF k.pc = "call"
    THEN [k EXCEPT !.pc = IF k.KEYBOARD_INTERRUPT_RECEIVED THEN "store" ELSE "returned"]
    ELSE IF k.pc = "store"
    THEN [k EXCEPT !.KEYBOARD_INTERRUPT_RECEIVED = FALSE, !.pc = "test"]
    ELSE IF k.pc = "test"
    THEN [k EXCEPT !.pc = IF k.BUFFER_TAIL # k.BUFFER_HEAD THEN "read" ELSE "returned"]
    ELSE [k EXCEPT !.BUFFER_TAIL = (@ + 1) % SCANCODE_BUFFER_LEN,
                   !.read = @ + 1,
                   !.in_order = @ /\ k.SCANCODE_BUFFER[k.BUFFER_TAIL + 1] = k.read + 1,
                   !.pc = "test"]

\* SCANCODE_BUFFER[BUFFER_HEAD] = scancode; BUFFER_HEAD = (BUFFER_HEAD + 1) % len;
\* KEYBOARD_INTERRUPT_RECEIVED.store(true)
KeyboardInterrupt ==
    /\ unit = "keyboard" /\ ~halted /\ kb.stored < MaxKeys
    /\ kb' = [kb EXCEPT !.SCANCODE_BUFFER[kb.BUFFER_HEAD + 1] = kb.stored + 1,
                        !.BUFFER_HEAD = (@ + 1) % SCANCODE_BUFFER_LEN,
                        !.KEYBOARD_INTERRUPT_RECEIVED = TRUE,
                        !.stored = @ + 1,
                        \* the slot written held a scancode not read yet
                        !.overwritten = @ \/ kb.SCANCODE_BUFFER[kb.BUFFER_HEAD + 1] > kb.read]
    /\ UNCHANGED <<unit, mmu, cpu, halted, overflow_checks, pmm_vars, k_vars, v_vars, pg_vars>>

ProcessKeyboardInput ==
    /\ unit = "keyboard" /\ ~halted /\ kb.pc # "returned"
    /\ kb' = process_keyboard_input(kb)
    /\ UNCHANGED <<unit, mmu, cpu, halted, overflow_checks, pmm_vars, k_vars, v_vars, pg_vars>>

\* animate_parrot(); hlt(); and, the timer or a key having woken the CPU,
\* the next round of the loop
MainLoop ==
    /\ unit = "keyboard" /\ ~halted /\ kb.pc = "returned"
    /\ kb' = [kb EXCEPT !.pc = "call"]
    /\ UNCHANGED <<unit, mmu, cpu, halted, overflow_checks, pmm_vars, k_vars, v_vars, pg_vars>>

(***************************************************************************)
(* Bringing paging up (memory/page_directory.rs): init_pages fills table   *)
(* after table and directory slot after slot, rescans the frames, and      *)
(* calls enable_paging as its last statement.                              *)
(***************************************************************************)
\* update_bitmap_from_memory: mmap_set for every frame below memory_size
\* that holds a non-zero byte
update_bitmap_from_memory(s, size, nonzero) ==
    LET frames == {f \in 0..(size \div PMMNGR_BLOCK_SIZE - 1) : f \in nonzero}
    IN  IF \E f \in frames : f \div 32 >= Len(s.memory_map)
        THEN [s EXCEPT !.panic = TRUE]
        ELSE [s EXCEPT !.memory_map = [w \in DOMAIN @ |->
                           @[w] \cup {f % 32 : f \in {g \in frames : g \div 32 = w - 1}}],
                       !.used_blocks = @ + Cardinality(frames)]

\* enable_paging with the PG bit set before cr3 is loaded.
enable_pagingPgFirst(m) ==
    IF m.pc = "cr3" THEN [m EXCEPT !.pg = TRUE, !.pc = "cr0"]
    ELSE [m EXCEPT !.cr3 = "PAGE_DIRECTORY_ADDR", !.pc = "active"]

\* mov cr3, PAGE_DIRECTORY_ADDR; then cr0 |= 0x80000000
enable_paging(m) ==
    IF m.pc = "cr3" THEN [m EXCEPT !.cr3 = "PAGE_DIRECTORY_ADDR", !.pc = "cr0"]
    ELSE [m EXCEPT !.pg = TRUE, !.pc = "active"]

\* One iteration of init_pages' loop over the tables; after the last one,
\* the rescan of the frames.
InitPages ==
    /\ unit = "boot" /\ ~halted /\ mmu.pc = "init_pages"
    /\ IF mmu.i < ENTRY_COUNT
       THEN /\ mmu' = [mmu EXCEPT !.i = @ + 1]
            /\ IF mmu.i \in PgDirs
               THEN /\ pg_directory' = [pg_directory EXCEPT ![mmu.i] =
                                            init_pages(@).directory[mmu.i]]
                    /\ pg_tables' = [pg_tables EXCEPT ![mmu.i] =
                           [j \in PgIndexes |-> init_pages(@[j]).tables[mmu.i][j]]]
               ELSE UNCHANGED <<pg_directory, pg_tables>>
            /\ UNCHANGED <<halted, memory_map, used_blocks>>
       ELSE /\ mmu' = [mmu EXCEPT !.pc = "cr3"]
            /\ \E nonzero \in {{}, 0..(max_blocks - 1)} :
                  AdoptPmm(update_bitmap_from_memory(
                      [memory_map |-> memory_map, used_blocks |-> used_blocks,
                       panic |-> FALSE], memory_size, nonzero))
            /\ UNCHANGED <<pg_directory, pg_tables>>
    /\ UNCHANGED <<unit, kb, cpu, overflow_checks, max_blocks, usable_regions, memory_size,
                   pmm_last, pmm_run, k_vars, v_vars, pg_fresh, pg_last>>

EnablePaging ==
    /\ unit = "boot" /\ ~halted /\ mmu.pc \in {"cr3", "cr0"}
    /\ mmu' = enable_paging(mmu)
    /\ UNCHANGED <<unit, kb, cpu, halted, overflow_checks, pmm_vars, k_vars, v_vars, pg_vars>>

(***************************************************************************)
(* Boot of the manager: process_memory_map, then init.                     *)
(***************************************************************************)
\* Memory maps the boot loader reports, entries [address, len, entry_type]:
\* low and high memory available around a reserved hole, with a reserved
\* entry at the top; the same with the hole reported last; one available
\* entry that reaches above the kernel below a reserved one; and eleven
\* available entries.
MemoryMaps ==
    LET Entry(first, frames, type) ==
            [address |-> first * PMMNGR_BLOCK_SIZE, len |-> frames * PMMNGR_BLOCK_SIZE,
             entry_type |-> type]
    IN  {<<Entry(0, 160, 1), Entry(160, 96, 2), Entry(256, 1728, 1), Entry(1984, 64, 3)>>,
         <<Entry(0, 160, 1), Entry(256, 1792, 1), Entry(160, 96, 2)>>,
         <<Entry(0, 1600, 1), Entry(1600, 448, 2)>>,
         [i \in 1..(MAX_REGIONS + 1) |-> Entry((i - 1) * 64, 64, 1)]}

\* process_memory_map: [panic, usable_regions, memory_size]; writing
\* usable_regions[10] panics (index out of bounds)
process_memory_map(regions, memory_map_entries) ==
    LET usable == SelectSeq(memory_map_entries, LAMBDA e : e.entry_type = 1)
        last == memory_map_entries[Len(memory_map_entries)]
    IN  [panic |-> Len(usable) > MAX_REGIONS,
         usable_regions |->
             [i \in 1..MAX_REGIONS |->
                 IF i <= Len(usable)
                 THEN [start_address |-> usable[i].address, size |-> usable[i].len]
                 ELSE regions[i]],
         memory_size |-> last.address + last.len]

\* The frames start_block .. start_block + blocks - 1 of a region.
RegionBlocks(region_address, region_size) ==
    LET start_block == region_address \div PMMNGR_BLOCK_SIZE
        blocks == (region_size \div PMMNGR_BLOCK_SIZE)
                      + (IF region_size % PMMNGR_BLOCK_SIZE # 0 THEN 1 ELSE 0)
    IN  start_block..(start_block + blocks - 1)

\* set_region_as_available: mmap_unset of every frame of the region
set_region_as_available(s, region_address, region_size) ==
    LET frames == RegionBlocks(region_address, region_size)
    IN  IF s.panic THEN s
        ELSE IF \E f \in frames : f \div 32 >= Len(s.memory_map)
        THEN [s EXCEPT !.panic = TRUE]
        ELSE [s EXCEPT !.memory_map =
                           [i \in DOMAIN @ |-> @[i] \ {b \in 0..31 : (i - 1) * 32 + b \in frames}],
                       !.used_blocks = @ - Cardinality(frames)]

\* set_region_as_unavailable: for every frame of the region mmap_set, which
\* adds one to used_blocks, and then used_blocks += 1
set_region_as_unavailable(s, region_address, region_size) ==
    LET frames == RegionBlocks(region_address, region_size)
    IN  IF s.panic THEN s
        ELSE IF \E f \in frames : f \div 32 >= Len(s.memory_map)
        THEN [s EXCEPT !.panic = TRUE]
        ELSE [s EXCEPT !.memory_map =
                           [i \in DOMAIN @ |-> @[i] \cup {b \in 0..31 : (i - 1) * 32 + b \in frames}],
                       !.used_blocks = @ + 2 * Cardinality(frames)]

\* The loop of init over usable_regions[i ..], which ends at a region of
\* size 0 (i counts from 0 as in the code).
RECURSIVE InitRegions(_, _, _)
InitRegions(s, regions, i) ==
    IF i >= Len(regions) \/ regions[i + 1].size = 0 THEN s
    ELSE InitRegions(set_region_as_available(s, regions[i + 1].start_address,
                                             regions[i + 1].size),
                     regions, i + 1)

\* Frames from address 0 up to KERNEL_HEAP_START, which init marks as used.
KernelFrames == KERNEL_HEAP_START_PAGE - HIGH_KERNEL_OFFSET_PAGE

\* PhysicalMemoryManager::init, prior being what each word of the bitmap's
\* memory holds before: the manager at PMM_ADDRESS.  The loop that stores
\* USED_BLOCK runs self.memory_map_size times, a field of the manager in
\* PMM that nothing writes (0); the regions are taken from index 1.
init(regions, size, prior) ==
    LET max == size \div PMMNGR_BLOCK_SIZE
        memory_map_size == max \div PMMNGR_BLOCKS_PER_INDEX
        self_memory_map_size == 0
        pmm == [memory_map |-> [i \in 1..memory_map_size |->
                                   IF i <= self_memory_map_size THEN 0..31 ELSE prior],
                used_blocks |-> max, panic |-> FALSE]
    IN  [max_blocks |-> max,
         s |-> set_region_as_unavailable(InitRegions(pmm, regions, 1), 0,
                                         KernelFrames * PMMNGR_BLOCK_SIZE - 1)]

ProcessMemoryMap ==
    /\ unit = "init" /\ ~halted /\ pmm_last.op = "none"
    /\ \E memory_map_entries \in MemoryMaps :
          LET r == process_memory_map(usable_regions, memory_map_entries)
          IN  /\ usable_regions' = r.usable_regions
              /\ memory_size' = r.memory_size
              /\ halted' = r.panic
              /\ pmm_last' = [op |-> "process_memory_map", entries |-> memory_map_entries]
    /\ UNCHANGED <<unit, kb, mmu, cpu, overflow_checks, memory_map, used_blocks, max_blocks, pmm_run,
                   k_vars, v_vars, pg_vars>>

PmmInit ==
    /\ unit = "init" /\ ~halted /\ pmm_last.op = "process_memory_map"
    /\ \E prior \in {{}, 0..31} :
          LET r == init(usable_regions, memory_size, prior)
          IN  /\ AdoptPmm(r.s)
              /\ max_blocks' = r.max_blocks
              /\ pmm_last' = [op |-> "init", prior |-> prior]
    /\ UNCHANGED <<unit, kb, mmu, cpu, overflow_checks, usable_regions, memory_size, pmm_run,
                   k_vars, v_vars, pg_vars>>

Init ==
    /\ unit \in {"pmm", "kmalloc", "kmalloc_test", "vmalloc", "vbrk", "paging", "entry", "fault", "lock", "init", "boot", "keyboard"}
    /\ halted = FALSE
    \* the profile decides only how used_blocks -= 1 at zero ends, which the
    \* heap runs never reach
    /\ overflow_checks \in (IF unit = "pmm" THEN BOOLEAN ELSE {FALSE})
    /\ IF unit = "pmm"
       THEN \E max \in PmmSizes : \E k \in PmmReserved(max) :
                \E lo \in PmmRegionStarts(max) :
                    (lo = 0 \/ k > 0) /\ InitPmm(max, k, lo)
       ELSE IF unit = "init"
       \* the manager as the lazy_static of PMM constructs it
       THEN /\ memory_map = <<>> /\ used_blocks = 0 /\ max_blocks = 0
            /\ usable_regions = [i \in 1..MAX_REGIONS |-> [start_address |-> 0, size |-> 0]]
            /\ memory_size = 0
            /\ pmm_last = NoCall /\ pmm_run = [fresh |-> FALSE, calls |-> <<>>]
       ELSE InitPmm(32 * MaxWords, 32 * MaxWords - MaxFree, 0)
    /\ kmem = kernel_heap_init.mem /\ KERNEL_HEAP_BREAK = kernel_heap_init.brk
    /\ k_last = NoCall /\ k_stray = FALSE /\ k_script = <<>>
    /\ vmem = vheap_init.mem /\ VMALLOC_BREAK = vheap_init.brk /\ v_last = NoCall
    /\ v_uninit = FALSE /\ v_mapped = vheap_init.mapped
    /\ kb = [SCANCODE_BUFFER |-> [i \in 1..SCANCODE_BUFFER_LEN |-> 0],
             BUFFER_HEAD |-> 0, BUFFER_TAIL |-> 0,
             KEYBOARD_INTERRUPT_RECEIVED |-> FALSE, pc |-> "call",
             stored |-> 0, read |-> 0, in_order |-> TRUE, overwritten |-> FALSE]
    /\ IF unit = "boot"
       \* before init_pages: whatever the memory of the tables holds, paging off
       THEN /\ \E old \in PgGarbage :
                  /\ pg_directory = [i \in PgDirs |-> old]
                  /\ pg_tables = [i \in PgDirs |-> [j \in PgIndexes |-> old]]
            /\ pg_fresh = FALSE /\ pg_last = NoCall
            /\ mmu = [pc |-> "init_pages", i |-> 0, cr3 |-> "none", pg |-> FALSE]
       ELSE /\ \E old \in (IF unit = "paging" THEN PgGarbage
                                             ELSE {[page |-> 0, low |-> {}]}) :
                  InitPaging(old)
            /\ mmu = [pc |-> "active", i |-> ENTRY_COUNT, cr3 |-> "PAGE_DIRECTORY_ADDR",
                      pg |-> TRUE]
    /\ InitCpu

Next == PmmNext \/ KNext \/ KmallocTest \/ VNext \/ Vbrk \/ PgNext \/ FaultNext
           \/ LockNext \/ ProcessMemoryMap \/ PmmInit \/ InitPages \/ EnablePaging
           \/ KeyboardInterrupt \/ ProcessKeyboardInput \/ MainLoop

Spec == Init /\ [][Next]_vars

(***************************************************************************)
(* Properties of the physical memory manager.                              *)
(***************************************************************************)

\* C1: after every allocate_frame / deallocate_frame call of a run that
\* started with used_blocks equal to the number of set bits, used_blocks
\* still equals the number of set bits of the bitmap.
C1_CounterMatchesBitmap ==
    (unit = "pmm" /\ ~halted) => used_blocks = PopCount(memory_map)

\* C2: a successful allocate_frame returns a multiple of 4096 whose bit was
\* clear before the call and is set after it.
C2_AllocatedFrameWasFree ==
    (pmm_last.op = "allocate_frame" /\ pmm_last.ok) =>
        /\ pmm_last.address % PMMNGR_BLOCK_SIZE = 0
        /\ ~pmm_last.was_set
        /\ mmap_test(memory_map, pmm_last.address \div PMMNGR_BLOCK_SIZE)

C2_Witness ==
    /\ pmm_last.op = "allocate_frame" /\ pmm_last.ok
    /\ pmm_last.address > 0
    /\ pmm_last.used_before + 1 = used_blocks

\* C3: on a bitmap of max_blocks = N frames, all free, the first N
\* allocate_frame calls succeed with pairwise distinct addresses and call
\* N + 1 fails.
C3_FreshBitmapServesAllFrames ==
    (unit = "pmm" /\ pmm_run.fresh) =>
        \A i \in 1..Len(pmm_run.calls) :
            IF i <= max_blocks
            THEN /\ pmm_run.calls[i].ok
                 /\ \A j \in 1..(i - 1) :
                        pmm_run.calls[j].address # pmm_run.calls[i].address
            ELSE ~pmm_run.calls[i].ok

\* C4: deallocate_frame of a frame whose bit is already clear leaves
\* used_blocks as it was.
C4_DeallocateClearBitKeepsCounter ==
    (pmm_last.op = "deallocate_frame" /\ ~pmm_last.was_set /\ ~halted) =>
        used_blocks = pmm_last.used_before

(***************************************************************************)
(* Properties of the two heaps.                                            *)
(***************************************************************************)

\* C5: a successful kmalloc(n), 0 < n <= MAX, returns p with ksize(p) >= n,
\* and a successful vmalloc(n) returns p with vsize(p) >= n.
C5_UsableSizeCoversRequest ==
    /\ (/\ k_last.op = "kmalloc" /\ k_last.ret = "ok"
        /\ 0 < k_last.n /\ k_last.n <= KMALLOC_MAX_ALLOCATION_SIZE)
       => ksize(kmem, k_last.ptr) >= k_last.n
    /\ (v_last.op = "vmalloc" /\ v_last.ret = "ok")
       => vsize(vmem, v_last.ptr) >= v_last.n

C5_Witness ==
    /\ k_last.op = "kmalloc" /\ k_last.ret = "ok" /\ k_last.n = 40
    /\ ksize(kmem, k_last.ptr) = 60

\* The walk of the kmalloc arena from KERNEL_HEAP_START, advancing by each
\* header's size, lands exactly on KERNEL_HEAP_END.
RECURSIVE KWalkLands(_, _)
KWalkLands(mem, current) ==
    IF current = KERNEL_HEAP_SIZE THEN TRUE
    ELSE IF current > KERNEL_HEAP_SIZE \/ current \notin DOMAIN mem THEN FALSE
    ELSE IF mem[current].size <= 0 THEN FALSE
    ELSE KWalkLands(mem, current + mem[current].size)

\* C6: after kernel_heap_init and any kmalloc / kfree calls the walk of the
\* kmalloc arena by header sizes lands exactly on KERNEL_HEAP_END.
C6_KmallocWalkLandsOnEnd == KWalkLands(kmem, 0)

C6_Witness ==
    /\ unit = "kmalloc" /\ k_last.op = "kfree" /\ k_last.ret = "ok"
    /\ Len(KChain(kmem, 0)) >= 3

\* Two blocks of the kmalloc arena, one the structural successor of the
\* other, are both free.
KAdjacentFree(mem) ==
    LET chain == KChain(mem, 0)
    IN  \E i \in 1..(Len(chain) - 1) : ~mem[chain[i]].used /\ ~mem[chain[i + 1]].used

\* C7: in the kmalloc arena, after every kmalloc and kfree, no block and its
\* structural successor are both free.
C7_KmallocNoAdjacentFree == ~KAdjacentFree(kmem)

\* a kfree has merged the freed block into a larger free block, other blocks
\* remaining
C7_Witness ==
    /\ unit = "kmalloc" /\ k_last.op = "kfree" /\ k_last.ret = "ok"
    /\ Len(KChain(kmem, 0)) >= 2
    /\ \E o \in DOMAIN kmem :
          /\ ~kmem[o].used /\ kmem[o].size > k_last.size
          /\ o <= k_last.ptr - KMALLOC_HEADER_SIZE
          /\ k_last.ptr - KMALLOC_HEADER_SIZE < o + kmem[o].size

\* Two blocks of the vmalloc arena, one starting where the other ends, are
\* both free.
VAdjacentFree(mem) ==
    \E o \in DOMAIN mem :
        LET s == o + mem[o].size
        IN  /\ mem[o].magic = VMALLOC_MAGIC /\ mem[o].size > 0 /\ mem[o].used = FREE
            /\ s \in DOMAIN mem
            /\ mem[s].magic = VMALLOC_MAGIC /\ mem[s].size > 0 /\ mem[s].used = FREE

\* C8: in the vmalloc arena, after every vmalloc and kfree following
\* vheap_init, no block and its structural successor are both free.
C8_VmallocNoAdjacentFree ==
    (unit = "vmalloc" /\ ~v_uninit) => ~VAdjacentFree(vmem)

\* No block of the chain is in use.
KAllFree(mem) == \A o \in DOMAIN mem : ~mem[o].used

VAllFree(mem) ==
    LET chain == VChain(mem, 0, {})
    IN  \A i \in 1..Len(chain) : mem[chain[i]].used = FREE

\* C9: once every live block has been freed, in whatever order, the heap is
\* a single free block of the initial size, and an allocation of the whole
\* heap then succeeds (both allocators).
C9_FreeAllRestoresHeap ==
    /\ (unit = "vmalloc" /\ ~v_uninit /\ v_last.op = "kfree" /\ VAllFree(vmem))
       => /\ VChain(vmem, 0, {}) = <<0>>
          /\ vmem[0].size = VMALLOC_MAX_ALLOCATION_SIZE
    /\ (unit = "kmalloc" /\ KAllFree(kmem))
       => KChain(kmem, 0) = <<0>>
    /\ (/\ unit = "kmalloc" /\ k_last.op = "kmalloc" /\ k_last.freed # <<>>
        /\ k_last.n = KERNEL_HEAP_SIZE - KMALLOC_HEADER_SIZE
        /\ Len(KChain(kmem, 0)) = 1)
       => k_last.ret = "ok"

\* C10: kfree(p) immediately followed by kmalloc(m), the rounded size of m
\* at most the size of the block freed, returns a block inside the region
\* just freed and leaves the break no higher than it was before the kfree.
C10_FreedRegionIsReused ==
    (/\ unit = "kmalloc" /\ k_last.op = "kmalloc" /\ k_last.freed # <<>>
     /\ k_last.n > 0 /\ KRound(k_last.n) <= k_last.freed[2])
    => /\ k_last.ret = "ok"
       /\ k_last.freed[1] <= k_last.ptr
       /\ k_last.ptr - KMALLOC_HEADER_SIZE + KRound(k_last.n)
             <= k_last.freed[1] - KMALLOC_HEADER_SIZE + k_last.freed[2]
       /\ KERNEL_HEAP_BREAK <= k_last.freed[3]

\* C14: kmalloc always returns to its caller, with a pointer or with an
\* error; it never panics, and when it returns an error the header chain and
\* the break are as before the call.
C14_KmallocReturnsToCaller ==
    [][(unit = "kmalloc" /\ ~k_stray /\ k_last'.op = "kmalloc") =>
          /\ k_last'.ret \in {"ok", "err"}
          /\ k_last'.ret = "err" =>
                (kmem' = kmem /\ KERNEL_HEAP_BREAK' = KERNEL_HEAP_BREAK)]_vars

\* C15: in both allocators a kfree of a block already free, or of a pointer
\* whose header fails validation, halts the kernel instead of returning.
C15_BadFreeHalts ==
    /\ (k_last.op = "kfree" /\ ~k_last.live) => halted
    /\ (v_last.op = "kfree" /\ v_last.ret \in {"invalid", "double"}) => halted

\* C17: a successful kmalloc or vmalloc returns the payload of the
\* lowest-addressed free block of the chain whose size is at least the
\* rounded request.
C17_FirstFit ==
    /\ (k_last.op = "kmalloc" /\ k_last.ret = "ok")
       => k_last.ptr = k_last.lowest + KMALLOC_HEADER_SIZE
    /\ (v_last.op = "vmalloc" /\ v_last.ret = "ok")
       => v_last.ptr = v_last.lowest + VMALLOC_HEADER_SIZE

\* a free block too small for the request lies below the block returned
C17_Witness ==
    /\ k_last.op = "kmalloc" /\ k_last.ret = "ok"
    /\ \E o \in DOMAIN kmem :
          /\ o < k_last.ptr - KMALLOC_HEADER_SIZE
          /\ ~kmem[o].used /\ kmem[o].size < KRound(k_last.n)

\* C18: after every kmalloc and kfree, every used block of the kmalloc arena
\* ends at or below KERNEL_HEAP_BREAK.
C18_UsedBlocksBelowBreak ==
    (unit = "kmalloc" /\ ~k_stray) =>
        \A o \in DOMAIN kmem :
            kmem[o].used => o + kmem[o].size <= KERNEL_HEAP_BREAK

\* The lowest frame index whose bit is clear in the bitmap, -1 when all are set.
LowestClear(map) ==
    LET clear == {b \in 0..(Len(map) * 32 - 1) : ~mmap_test(map, b)}
    IN  IF clear = {} THEN 0 - 1
        ELSE CHOOSE b \in clear : \A c \in clear : b <= c

\* C16: an allocate_frame call made while used_blocks < max_blocks and some
\* bit is clear succeeds with 4096 times the lowest clear index, sets exactly
\* that bit and adds one to used_blocks; a call made while used_blocks >=
\* max_blocks fails and changes neither the bitmap nor the counter.
C16_AllocateLowestClear ==
    [][(unit = "pmm" /\ pmm_last'.op = "allocate_frame") =>
          /\ (~U32GE(used_blocks, max_blocks) /\ LowestClear(memory_map) >= 0) =>
                /\ pmm_last'.ok
                /\ pmm_last'.address = PMMNGR_BLOCK_SIZE * LowestClear(memory_map)
                /\ memory_map' = mmap_set(PmmState, LowestClear(memory_map)).memory_map
                /\ used_blocks' = used_blocks + 1
          /\ U32GE(used_blocks, max_blocks) =>
                /\ ~pmm_last'.ok
                /\ memory_map' = memory_map /\ used_blocks' = used_blocks]_vars

\* The address lies in some recorded region taken as [start, start + size).
InHalfOpenRegion(regions, x) ==
    \E i \in 1..Len(regions) :
        /\ AddrGE(x, regions[i].start_address)
        /\ ~AddrGE(x, regions[i].start_address + regions[i].size)

\* C20: a deallocate_frame call whose address lies in no recorded region
\* [start_address, start_address + size) changes neither the bitmap nor
\* used_blocks.
C20_DeallocateOutsideRegionsIsNoop ==
    [][(unit = "pmm" /\ pmm_last'.op = "deallocate_frame"
        /\ ~InHalfOpenRegion(usable_regions, Addr(pmm_last'.address))) =>
          (memory_map' = memory_map /\ used_blocks' = used_blocks)]_vars

\* C19: after every kmalloc, kfree, kbrk, vmalloc and vbrk call each arena's
\* break lies between its arena's start and end and is a whole number of
\* pages above the start.
C19_BreaksStayInBounds ==
    /\ 0 <= KERNEL_HEAP_BREAK /\ KERNEL_HEAP_BREAK <= KERNEL_HEAP_SIZE
    /\ KERNEL_HEAP_BREAK % PAGE_SIZE = 0
    /\ 0 <= VMALLOC_BREAK /\ VMALLOC_BREAK <= VMALLOC_ARENA_SIZE
    /\ VMALLOC_BREAK % PAGE_SIZE = 0

\* vbrk was asked to go past VMALLOC_END and stopped on it.
C19_Witness ==
    /\ v_last.op = "vbrk" /\ v_last.clamped
    /\ VMALLOC_BREAK = VMALLOC_ARENA_SIZE

\* C11: on a fresh arena kmalloc(8), kmalloc(253), kmalloc(1020) succeed;
\* once the second block is freed, kmalloc(50) succeeds with the pointer the
\* second block had and leaves the break where it was; the heap dump then
\* lists exactly four blocks: the 8-byte block, the 50-byte block, a free
\* remainder and the 1020-byte block.
C11_ScenarioReusesFreedRegion ==
    (unit = "kmalloc_test" /\ Len(k_script) = Len(KmallocTestCalls)) =>
        LET dump == kprint_heap(kmem, KERNEL_HEAP_BREAK, 0)
        IN  /\ \A i \in 1..Len(KmallocTestCalls) : k_script[i].ret = "ok"
            /\ k_script[5].ptr = k_script[2].ptr
            /\ KERNEL_HEAP_BREAK = k_script[5].brk
            /\ Len(dump) = 4
            /\ dump[1].used /\ dump[1].at + KMALLOC_HEADER_SIZE = k_script[1].ptr
            /\ dump[2].used /\ dump[2].at + KMALLOC_HEADER_SIZE = k_script[5].ptr
            /\ ~dump[3].used
            /\ dump[4].used /\ dump[4].at + KMALLOC_HEADER_SIZE = k_script[3].ptr

\* The scenario has run to its end.
C11_Witness ==
    /\ unit = "kmalloc_test" /\ Len(k_script) = Len(KmallocTestCalls)
    /\ Len(kprint_heap(kmem, KERNEL_HEAP_BREAK, 0)) = 4

\* C12: translating a virtual address whose page was just mapped to a
\* page-aligned frame yields that frame's address or'ed with the address's
\* low 12 bits, for frames at or above 0x80000000 too, and the frame address
\* the entry gives back is the frame that was mapped.
C12_MapThenTranslate ==
    (pg_last.op = "translate" /\ pg_last.mapped >= 0) =>
        /\ pg_last.ret = "some"
        /\ pg_last.phys = [page |-> pg_last.mapped, off |-> pg_last.va.off]
        /\ pg_last.stored = pg_last.mapped

\* C13: right after init_pages every address of [0xC0000000, 0xC0800000)
\* translates to itself minus 0xC0000000.
C13_HigherHalfTranslatesLinearly ==
    (/\ pg_last.op = "translate" /\ pg_last.fresh
     /\ pg_last.va.page >= HIGH_KERNEL_OFFSET_PAGE
     /\ pg_last.va.page < HIGH_KERNEL_OFFSET_PAGE + 2 * ENTRY_COUNT) =>
        /\ pg_last.ret = "some"
        /\ pg_last.phys = [page |-> pg_last.va.page - HIGH_KERNEL_OFFSET_PAGE,
                           off |-> pg_last.va.off]

\* C28: after initialisation and any allocations and frees, every block of
\* the kmalloc chain and every block of the vmalloc chain has a size that is
\* a positive multiple of 32 (here: in runs in which vmalloc has read no
\* bytes it did not write).
C28_BlockSizesPositiveMultiples ==
    /\ \A i \in 1..Len(KChain(kmem, 0)) :
          /\ kmem[KChain(kmem, 0)[i]].size > 0
          /\ kmem[KChain(kmem, 0)[i]].size % MIN_ALLOCATION_SIZE = 0
    /\ ~v_uninit =>
          \A i \in 1..Len(VChain(vmem, 0, {})) :
              /\ vmem[VChain(vmem, 0, {})[i]].size > 0
              /\ vmem[VChain(vmem, 0, {})[i]].size % MIN_ALLOCATION_SIZE = 0

\* C27: a kmalloc or vmalloc that selects a free block of size S larger than
\* the rounded request R leaves the block used with size R, a free header of
\* size S - R at block + R, and returns block + header size; when S = R it
\* writes no header and leaves what follows the block as it was.
C27_SplitWritesLeftover ==
    [][/\ (unit = "kmalloc" /\ k_last'.op = "kmalloc" /\ k_last'.ret = "ok") =>
            LET b == k_last'.ptr - KMALLOC_HEADER_SIZE
                S == kmem[b].size
                R == KRound(k_last'.n)
            IN  /\ kmem'[b] = [used |-> TRUE, size |-> R]
                /\ S > R => /\ b + R \in DOMAIN kmem'
                            /\ kmem'[b + R] = [used |-> FALSE, size |-> S - R]
                /\ S = R => \A o \in DOMAIN kmem' :
                                o # b => (o \in DOMAIN kmem /\ kmem'[o] = kmem[o])
       /\ (unit = "vmalloc" /\ v_last'.op = "vmalloc" /\ v_last'.ret = "ok") =>
            LET b == v_last'.ptr - VMALLOC_HEADER_SIZE
                S == vmem[b].size
                R == VRound(v_last'.n)
            IN  /\ vmem'[b].used = USED /\ vmem'[b].size = R
                /\ S > R => /\ b + R \in DOMAIN vmem'
                            /\ vmem'[b + R].magic = VMALLOC_MAGIC
                            /\ vmem'[b + R].used = FREE
                            /\ vmem'[b + R].size = S - R
                /\ S = R => \A o \in DOMAIN vmem' :
                                o # b => (o \in DOMAIN vmem /\ vmem'[o] = vmem[o])]_vars

\* C26: after vheap_init and any vmalloc and kfree calls (here: in runs in
\* which vmalloc has read no bytes it did not write) every block b reached
\* from VMALLOC_START has b.next null or equal to b + b.size, b.next.prev = b
\* when b.next is not null, the first block has a null prev, and the sizes
\* along the chain add up to the size of the initial block.
C26_VmallocChainConsistent ==
    (unit = "vmalloc" /\ ~v_uninit) =>
        LET chain == VChain(vmem, 0, {})
        IN  /\ vmem[0].prev = NULL
            /\ \A i \in 1..Len(chain) :
                  LET b == chain[i]
                  IN  \/ vmem[b].next = NULL
                      \/ /\ vmem[b].next = b + vmem[b].size
                         /\ vmem[b].next \in DOMAIN vmem
                         /\ vmem[vmem[b].next].prev = b
            /\ VTotal(vmem, chain) = VMALLOC_MAX_ALLOCATION_SIZE

\* C25: every call terminates with a definite result: no reachable call of
\* vmalloc walks its chain forever (the walks of kmalloc, kfree and kdefrag
\* advance by the positive block sizes of C28's kernel-heap half and are
\* computed to their end by the operators above).
C25_EveryCallTerminates ==
    ~(unit = "vmalloc" /\ v_last.op = "vmalloc" /\ v_last.ret = "hang")

\* C21: after unmap of a mapped page whose frame the manager tracks, the
\* entry is not present, the frame's bitmap bit is clear and used_blocks is
\* one lower than before the call.
C21_UnmapReturnsFrame ==
    (unit = "paging" /\ pg_last.op = "unmap" /\ pg_last.present
        /\ pg_last.frame < max_blocks) =>
        LET index == (pg_last.page \div ENTRY_COUNT) % ENTRY_COUNT
            page_table == PageDirectoryEntry_get_page_table(pg_directory[index])
        IN  /\ ~PageTableEntry_is_present(pg_tables[page_table][pg_last.page % ENTRY_COUNT])
            /\ ~mmap_test(memory_map, pg_last.frame)
            /\ used_blocks = pg_last.used_before - 1

\* C22: an entry-setting operation given a frame address that is not a
\* multiple of 4096 returns an error and leaves the entry as it was.
C22_MisalignedFrameRejected ==
    (unit = "entry" /\ pg_last.op \in {"PageTableEntry::set_frame_address",
                                       "PageDirectoryEntry::set",
                                       "PageDirectoryEntry::set_address",
                                       "PageDirectoryEntry::set_frame"}
        /\ pg_last.frame.off # 0) =>
        /\ pg_last.ret = "Err"
        /\ pg_last.after = pg_last.before

\* C29: set_flags leaves the frame / table address of the entry as it was,
\* and after PageDirectoryEntry::set(frame, flags) with a page-aligned frame
\* address() is frame.
C29_SetFlagsKeepsAddress ==
    /\ (unit = "entry" /\ pg_last.op = "PageTableEntry::set_flags") =>
           PageTableEntry_frame(pg_last.after) = PageTableEntry_frame(pg_last.before)
    /\ (unit = "entry" /\ pg_last.op = "PageDirectoryEntry::set_flags") =>
           PageDirectoryEntry_address(pg_last.after)
               = PageDirectoryEntry_address(pg_last.before)
    /\ (unit = "entry" /\ pg_last.op = "PageDirectoryEntry::set"
            /\ pg_last.frame.off = 0) =>
           PageDirectoryEntry_address(pg_last.after) = pg_last.frame

\* C23: a page fault whose error code has the present bit and the
\* reserved-bit or the instruction-fetch bit set halts the kernel, whatever
\* its write and user bits; one with the present bit and neither returns.
C23_ReservedOrFetchIsFatal ==
    (unit = "fault" /\ pg_last.op = "page_fault" /\ ErrorBit(pg_last.error_code, 1)) =>
        (halted <=> (ErrorBit(pg_last.error_code, 8) \/ ErrorBit(pg_last.error_code, 16)))

\* C30: a not-present fault at A taken while a frame is available (some bit
\* is clear and used_blocks < max_blocks) allocates exactly one frame and
\* leaves it, PRESENT and WRITABLE, in entry [A >> 22][(A >> 12) & 0x3FF],
\* every other entry as it was; one taken while no frame is available
\* changes no entry and no bit.
C30_NotPresentFaultMapsOneFrame ==
    [][(unit = "fault" /\ pg_last'.op = "page_fault"
            /\ ~ErrorBit(pg_last'.error_code, 1)) =>
          LET i == pg_last'.va.page \div ENTRY_COUNT
              j == pg_last'.va.page % ENTRY_COUNT
              available == ~U32GE(used_blocks, max_blocks) /\ LowestClear(memory_map) >= 0
          IN  /\ available =>
                    /\ used_blocks' = used_blocks + 1
                    /\ \E f \in 0..(max_blocks - 1) :
                          /\ ~mmap_test(memory_map, f)
                          /\ memory_map' = mmap_set(PmmState, f).memory_map
                          /\ pg_tables'[i][j].page = f
                    /\ {"PRESENT", "WRITABLE"} \subseteq pg_tables'[i][j].low
                    /\ \A d \in DOMAIN pg_tables : \A e \in DOMAIN pg_tables[d] :
                          <<d, e>> # <<i, j>> => pg_tables'[d][e] = pg_tables[d][e]
              /\ ~available => pg_tables' = pg_tables /\ memory_map' = memory_map]_vars

\* C24: no not-present page fault is raised while PMM's lock is held: the
\* holder of the lock is never interrupted by the fault handler, no handler
\* spins on the lock, and no fault is taken while a fault is being handled.
C24_NoFaultWhileLockHeld ==
    unit = "lock" =>
        /\ cpu.holder # 0 => cpu.holder = Len(cpu.stack)
        /\ \A i \in 1..Len(cpu.stack) : cpu.stack[i].pc # "spin"
        /\ Len(cpu.stack) <= 2

\* C31: whenever the page-fault handler returns to the faulting instruction
\* after a not-present fault at A, the entry of A is present.
C31_FaultReturnLeavesPagePresent ==
    [][(unit = "lock" /\ Len(cpu'.stack) < Len(cpu.stack)) =>
          Resident(pg_tables', cpu.stack[Len(cpu.stack)].va)]_vars

\* The frame lies in one of the recorded usable regions.
InUsableRegion(regions, f) ==
    \E i \in 1..Len(regions) :
        /\ regions[i].size > 0
        /\ f * PMMNGR_BLOCK_SIZE >= regions[i].start_address
        /\ f * PMMNGR_BLOCK_SIZE < regions[i].start_address + regions[i].size

\* C32: after init a frame's bit is clear exactly when the frame lies in a
\* recorded usable region and outside the kernel-reserved range, whatever the
\* bitmap's memory held before.
C32_InitBitsMatchRegions ==
    (unit = "init" /\ pmm_last.op = "init" /\ ~halted) =>
        \A f \in 0..(Len(memory_map) * 32 - 1) :
            ~mmap_test(memory_map, f)
                <=> (InUsableRegion(usable_regions, f) /\ f >= KernelFrames)

\* C33: immediately after init used_blocks is the number of set bits of the
\* bitmap and lies in 0 .. max_blocks.
C33_InitCounterMatchesBitmap ==
    (unit = "init" /\ pmm_last.op = "init" /\ ~halted) =>
        /\ used_blocks = PopCount(memory_map)
        /\ 0 <= used_blocks /\ used_blocks <= max_blocks

\* C39: process_memory_map records the entries of type 1, in order, keeps
\* the first ten of them without failing, and sets the memory size to the
\* largest address + length of the entries.
C39_MemoryMapRecorded ==
    (unit = "init" /\ pmm_last.op = "process_memory_map") =>
        LET entries == pmm_last.entries
            usable == SelectSeq(entries, LAMBDA e : e.entry_type = 1)
        IN  /\ ~halted
            /\ \A i \in 1..MAX_REGIONS :
                  usable_regions[i] =
                      IF i <= Len(usable)
                      THEN [start_address |-> usable[i].address, size |-> usable[i].len]
                      ELSE [start_address |-> 0, size |-> 0]
            /\ \A i \in 1..Len(entries) :
                  entries[i].address + entries[i].len <= memory_size
            /\ \E i \in 1..Len(entries) :
                  entries[i].address + entries[i].len = memory_size

\* C34: after init_pages every directory slot points to the page table of
\* its own index, and has the user-accessible flag exactly when its index is
\* below 768.
C34_DirectorySlotsAfterInit ==
    (unit = "paging" /\ pg_fresh) =>
        \A i \in DOMAIN pg_directory :
            /\ PageDirectoryEntry_get_page_table(pg_directory[i]) = i
            /\ "USER" \in pg_directory[i].low
                   <=> i < HIGH_KERNEL_OFFSET_PAGE \div ENTRY_COUNT

C36_MappedExactlyBelowBreak ==
    (unit = "vbrk" /\ ~halted) =>
        v_mapped = {<<0, (VMALLOC_BREAK - 1) \div PAGE_SIZE>> : z \in {0} \ {VMALLOC_BREAK}}

\* C37: every scancode the interrupt handler stores is read by the drain
\* loop exactly once and in arrival order, and no slot holding an unread
\* scancode is overwritten: the k-th read returns the k-th scancode stored,
\* and when the buffer is found empty every stored scancode has been read.
C37_RingBufferKeepsEveryScancode ==
    unit = "keyboard" =>
        /\ kb.in_order /\ ~kb.overwritten
        /\ kb.BUFFER_TAIL = kb.BUFFER_HEAD => kb.read = kb.stored

\* C38: whenever process_keyboard_input has returned and BUFFER_TAIL differs
\* from BUFFER_HEAD, KEYBOARD_INTERRUPT_RECEIVED is true, so the next round
\* of the main loop drains the buffer.
C38_NoLostWakeup ==
    (unit = "keyboard" /\ kb.pc = "returned" /\ kb.BUFFER_TAIL # kb.BUFFER_HEAD)
        => kb.KEYBOARD_INTERRUPT_RECEIVED

C38_ReturnedWithPendingScancode ==
    /\ unit = "keyboard" /\ kb.pc = "returned" /\ kb.read > 0
    /\ kb.BUFFER_TAIL # kb.BUFFER_HEAD /\ kb.KEYBOARD_INTERRUPT_RECEIVED

====
